---- MODULE Spec2Model ----
(***************************************************************************)
(* Activity-to-operation reconciliation of the winehaus/veritas migration  *)
(* toolkit: the bulk importer (scripts/import-case-data.js,                *)
(* LegacyCaseDataSeeder) and the single-activity migrator                  *)
(* (scripts/migrate-specific-activity.js, SpecificActivityMigrator).       *)
(*                                                                         *)
(* Legacy ids in the extracted JSON files are numbers; the legacy_id       *)
(* columns of the target store are VARCHAR, so rows hold the decimal text  *)
(* of the number.  A row's legacy_id n stands for the text of n; JS Map    *)
(* keys keep their type (Num / Str), because Map lookup does not coerce.   *)
(***************************************************************************)
EXTENDS Integers, Sequences, FiniteSets, TLC

\* ------------------------------------------------------------------ bounds
MaxLines == 2      \* line items in cases-activityDetails.json
MaxQty == 2        \* largest Quantity of a line item
MaxRuns == 2       \* runs of the single-activity migrator on one store
MaxActs == 2       \* activities in cases-activities.json for the bulk run
MaxPosts == 3      \* ledger posts in the ledger-writer specification

\* ------------------------------------------------------------ JS values
\* null / undefined: falsy, and calling .toString() on it throws
Nil == 0

Num(n) == <<"num", n>>
\* Number.prototype.toString(): the key type changes, the digits do not
Str(n) == <<"str", n>>

EmptyMap == [k \in {} |-> Nil]
MapHas(m, k) == k \in DOMAIN m
MapGet(m, k) == IF k \in DOMAIN m THEN m[k] ELSE Nil
MapSet(m, k, v) == [x \in (DOMAIN m) \cup {k} |-> IF x = k THEN v ELSE m[x]]

\* text is a sequence of tokens; a decimal number is the sequence of its digits
DigitChar(d) == <<"0", "1", "2", "3", "4", "5", "6", "7", "8", "9">>[d + 1]
RECURSIVE Digits(_)
Digits(n) == IF n < 10 THEN <<DigitChar(n)>>
             ELSE Digits(n \div 10) \o <<DigitChar(n % 10)>>

\* JSON.stringify([{ legacy_activity_id: id }]) for a number id
StringifyLog(id) ==
  <<"[", "{", "\"", "legacy_activity_id", "\"", ":">> \o Digits(id) \o <<"}", "]">>
\* JSON.stringify([])
EmptyLog == <<"[", "]">>
\* the LIKE pattern  %"legacy_activity_id":"${activityId}"%  without the % signs
LikePattern(activityId) ==
  <<"\"", "legacy_activity_id", "\"", ":", "\"">> \o Digits(activityId) \o <<"\"">>
\* text LIKE '%pat%'
Like(text, pat) ==
  \E i \in 0..(Len(text) - Len(pat)) : SubSeq(text, i + 1, i + Len(pat)) = pat

Min(S) == CHOOSE x \in S : \A y \in S : x <= y
\* rows[0] of a SELECT: the matching row inserted first (ids are minted in order)
FirstRow(rows) == CHOOSE r \in rows : \A q \in rows : r.id <= q.id

RECURSIVE SumAmount(_)
SumAmount(rows) ==
  IF rows = {} THEN 0
  ELSE LET r == CHOOSE x \in rows : TRUE IN r.amount + SumAmount(rows \ {r})

\* ----------------------------------------------------- legacy data files
\* cases-caseDetails.json, in file order: detail 1 lies in case 2, detail 2 in
\* case 3 (a case that was never imported), detail 4 names a wine with no
\* target row, detail 5 holds no bottle, detail 6 holds the wine of detail 1
\* once more; no record has id 3
ReferenceCaseDetails ==
  << [legacy_case_detail_id |-> 1, legacy_case_id |-> 2, legacy_wine_item_id |-> 1,
      legacy_bottle_size_id |-> 1, legacy_vintage_id |-> 1, WineQuantity |-> 2],
     [legacy_case_detail_id |-> 2, legacy_case_id |-> 3, legacy_wine_item_id |-> 1,
      legacy_bottle_size_id |-> 1, legacy_vintage_id |-> 1, WineQuantity |-> 1],
     [legacy_case_detail_id |-> 4, legacy_case_id |-> 2, legacy_wine_item_id |-> 2,
      legacy_bottle_size_id |-> 1, legacy_vintage_id |-> 1, WineQuantity |-> 1],
     [legacy_case_detail_id |-> 5, legacy_case_id |-> 2, legacy_wine_item_id |-> 1,
      legacy_bottle_size_id |-> 1, legacy_vintage_id |-> 1, WineQuantity |-> 0],
     [legacy_case_detail_id |-> 6, legacy_case_id |-> 2, legacy_wine_item_id |-> 1,
      legacy_bottle_size_id |-> 1, legacy_vintage_id |-> 1, WineQuantity |-> 1] >>

\* cases-cases.json, in file order: cases 1 and 2 of accounts 1 and 2, case 3
\* of account 3
ReferenceCases ==
  << [legacy_case_id |-> 1, legacy_account_id |-> 1],
     [legacy_case_id |-> 2, legacy_account_id |-> 2],
     [legacy_case_id |-> 3, legacy_account_id |-> 3] >>

\* an email is the sequence of its characters; null and '' are the empty one
NoEmail == <<>>

\* a legacy password
Secret == "secret"

\* user.Password is undefined: the record of users.json has no such field
NoPassword(user) == "Password" \notin DOMAIN user

\* accounts.json and users.json of the reference store, users.json with the
\* Password that the import hashes: the accounts 1 and 2 with an active user
\* each, and the inactive account 3
ReferenceData ==
  [accounts |->
     << [legacy_account_id |-> 1, legacy_user_id |-> 1, FirstName |-> "Ann",
         LastName |-> "A", Email |-> <<"a", "@", "x">>, is_active |-> "true"],
        [legacy_account_id |-> 2, legacy_user_id |-> 2, FirstName |-> "Bob",
         LastName |-> "B", Email |-> <<" ", "B", "@", "x">>, is_active |-> "true"],
        [legacy_account_id |-> 3, legacy_user_id |-> 3, FirstName |-> "Cy",
         LastName |-> "C", Email |-> <<"c", "@", "x">>, is_active |-> "false"] >>,
   users |->
     << [legacy_user_id |-> 1, Role |-> "Customer", Email |-> <<"a", "@", "x">>,
         is_active |-> "true", Password |-> Secret],
        [legacy_user_id |-> 2, Role |-> "Customer", Email |-> NoEmail,
         is_active |-> "true", Password |-> Secret] >>]

\* the files as extract-user-data leaves them: no user has a Password
WithoutPasswords(data) ==
  [data EXCEPT !.users =
     [i \in DOMAIN @ |-> [f \in DOMAIN @[i] \ {"Password"} |-> @[i][f]]]]

\* the files of a user import: the reference files; with a staff manager
\* who is not active; with the user of account 2 not active; with account 2
\* under the email of account 1 and without a first name; and the reference
\* files as the extraction leaves them
UserFiles ==
  {ReferenceData,
   [ReferenceData EXCEPT !.users = Append(@, [legacy_user_id |-> 5, Role |-> "Staff Manager",
                                             Email |-> <<"M", "@", "x", " ">>,
                                             is_active |-> "false",
                                             Password |-> Secret])],
   [ReferenceData EXCEPT !.users[2].is_active = "false"],
   [ReferenceData EXCEPT !.accounts[2].Email = <<"A", "@", "x">>,
                         !.accounts[2].FirstName = ""],
   WithoutPasswords(ReferenceData)}


Kinds == {"Bottle", "Case", "Supply", "Locker"}
TransactionTypes == {"D", "W", "T", "X"}
Statuses == 1..5

BaseLine ==
  [ActivityID |-> 1, ActivityType |-> "Bottle", CaseID |-> 1, CaseDetailID |-> 1,
   WineItemID |-> 1, BottleSizeID |-> 1, VintageID |-> 1, Quantity |-> 1]

\* the line items the files may hold: the base line varied in one aspect
LineItems ==
  {[BaseLine EXCEPT !.ActivityType = k] : k \in Kinds}
  \cup {[BaseLine EXCEPT !.CaseID = c] : c \in 1..3}
  \cup {[BaseLine EXCEPT !.CaseDetailID = d] : d \in {Nil, 2}}
  \cup {[BaseLine EXCEPT !.WineItemID = w, !.BottleSizeID = f] : w \in 1..2, f \in 1..2}
  \cup {[BaseLine EXCEPT !.VintageID = 2]}
  \cup {[BaseLine EXCEPT !.WineItemID = Nil, !.BottleSizeID = Nil, !.VintageID = Nil,
                         !.CaseDetailID = d] : d \in 1..4}
  \cup {[BaseLine EXCEPT !.Quantity = q] : q \in 1..MaxQty}
  \cup {[BaseLine EXCEPT !.ActivityID = 2, !.CaseID = 2]}

\* the lines after the first one in a file: the base line, one on another
\* case, one of a wine with no target row, one of a format with no target row
LaterLines ==
  {BaseLine, [BaseLine EXCEPT !.CaseID = 2], [BaseLine EXCEPT !.WineItemID = 2],
   [BaseLine EXCEPT !.BottleSizeID = 2]}

\* the files of up to n lines with the first line from one set and the rest
\* from another
LineFiles(first, later, n) ==
  {f \in UNION {[1..k -> first \cup later] : k \in 0..n} :
     /\ Len(f) >= 1 => f[1] \in first
     /\ \A i \in 2..Len(f) : f[i] \in later}

\* -------------------------------------------------------------- variables
VARIABLES
  activities,       \* legacyData.activities (cases-activities.json)
  activityDetails,  \* legacyData.activityDetails (cases-activityDetails.json)
  legacyData,       \* legacyData.accounts and legacyData.users (accounts.json, users.json)
  legacyCases,      \* legacyData.cases (cases-cases.json)
  caseDetailsFile,  \* legacyData.caseDetails (cases-caseDetails.json), in file order
  wineItems,        \* legacyData.wineItems (wineItems.json): the legacy ids
  wineBottleSizes,  \* legacyData.wineBottleSizes (wineBottleSizes.json)
  wineBottleVintages, \* legacyData.wineBottleVintages (wineBottleVintages.json)
  users,            \* target table users
  cases,            \* target table cases
  wines,            \* target table wines
  formats,          \* target table wine_bottle_formats
  vintages,         \* target table wine_bottle_vintages
  groups,           \* target table operations_groups
  ops,              \* target table cases_operations
  entries,          \* target table wine_inventory_entries
  customerIdMap, caseIdMap, wineMapId, bottleFormatMapId, bottleVintageMapId,
  nextId,           \* the next uuid
  pc,               \* position of the running script
  queue,            \* bulk run: the activities still to visit, with their customer
  cur,              \* the activity being reconciled
  gid,              \* its OperationGroup id
  idx,              \* index of the next line item of the activity
  arg,              \* migrator: [activityId, clearExisting] of the running call,
                    \* and whether it has called clearExistingActivityData
  runs,             \* runs started so far
  outcome,          \* how the last run ended: completed, skipped or aborted
  handled,          \* what each line handler call did: [gid, line, result]
  posted,           \* ledger-writer specification: the posts made so far
  fault,            \* the writes the store rejects: the table, and how many
                    \* writes to it the store accepts first
  tenants,          \* target table tenants
  defaultTenantId,  \* this.defaultTenantId of the running script
  imported,         \* the reference imports (wine, user) that have been run
  orchestrator,     \* full migration: its options, its position and its child
  errors,           \* the statements a database rejected: the script, and
                    \* whether the error left the script
  leg               \* transfer handler: its next statement for the line idx,
                    \* and its local variables

legacyVars == <<activities, activityDetails, legacyData, legacyCases, caseDetailsFile, wineItems, wineBottleSizes, wineBottleVintages>>
caseDetails == {caseDetailsFile[i] : i \in DOMAIN caseDetailsFile}
refVars == <<users, cases, formats, vintages, imported>>
mapVars == <<customerIdMap, caseIdMap, wineMapId, bottleFormatMapId, bottleVintageMapId>>
vars == <<activities, activityDetails, legacyData, legacyCases, caseDetailsFile,
          wineItems, wineBottleSizes, wineBottleVintages, users, cases, wines, formats, vintages,
          groups, ops, entries, customerIdMap, caseIdMap, wineMapId,
          bottleFormatMapId, bottleVintageMapId, nextId, pc, queue, cur, gid, idx,
          arg, runs, outcome, handled, posted, fault, tenants,
          defaultTenantId, imported, orchestrator, errors, leg>>

\* ------------------------------------------------------- status and kind
parseActivityStatusBulk(status) ==
  CASE status = 1 -> "processed"
    [] status = 2 -> "on_hold"
    [] status = 3 -> "confirmed"
    [] status = 4 -> "on_hold"
    [] OTHER -> "undefined"      \* the switch falls through: JS undefined

\* variant: the migrator's mapping without its default branch
parseActivityStatusMig_NoDefault(status) ==
  CASE status = 1 -> "processed"
    [] status = 2 -> "on_hold"
    [] status = 3 -> "confirmed"
    [] status = 4 -> "on_hold"
    [] OTHER -> "undefined"

parseActivityStatusMig(status) ==
  CASE status = 1 -> "processed"
    [] status = 2 -> "on_hold"
    [] status = 3 -> "confirmed"
    [] status = 4 -> "on_hold"
    [] OTHER -> "pending"

parseActivityStatus(p, status) ==
  IF p = "bulk" THEN parseActivityStatusBulk(status) ELSE parseActivityStatusMig(status)

parseActivityTransactionTypeBulk(activity) ==
  CASE activity.TransactionType = "D" -> "deposit"
    [] activity.TransactionType = "W" -> "withdrawal"
    [] OTHER -> "undefined"

parseActivityTransactionTypeMig(activity) ==
  CASE activity.TransactionType = "D" -> "deposit"
    [] activity.TransactionType = "W" -> "withdrawal"
    [] activity.TransactionType = "T" -> "transfer"
    [] OTHER -> "other"

\* variant: the kind mapping with deposit and withdrawal exchanged
parseActivityTransactionType_Swapped(p, activity) ==
  CASE activity.TransactionType = "D" -> "withdrawal"
    [] activity.TransactionType = "W" -> "deposit"
    [] OTHER -> "undefined"

parseActivityTransactionType(p, activity) ==
  IF p = "bulk" THEN parseActivityTransactionTypeBulk(activity)
  ELSE parseActivityTransactionTypeMig(activity)

\* logs column of a CaseOperation
OperationLogs(p, activity) ==
  IF p = "bulk" THEN EmptyLog ELSE StringifyLog(activity.ActivityID)

\* variant: the lines of the activity with the Supply lines kept
getInventoryActivityDetails_WithSupply(details, activityId) ==
  SelectSeq([i \in 1..Len(details) |-> i],
            LAMBDA i : /\ details[i].ActivityID # Nil
                       /\ details[i].ActivityID = activityId)

\* ------------------------------------------------------------ line items
\* indices (positions in the file) of the non-Supply lines of an activity
getInventoryActivityDetails(details, activityId) ==
  SelectSeq([i \in 1..Len(details) |-> i],
            LAMBDA i : /\ details[i].ActivityID # Nil
                       /\ details[i].ActivityID = activityId
                       /\ details[i].ActivityType # "Supply")

\* ------------------------------------------------------------- tenants
\* the tenant name that createDefaultTenant of utils/tenant-utils defaults to
DefaultTenantName == "Veritas002"
\* the tenant name of the wine import's own createDefaultTenant
WineTenantName == "Veritas"

\* SELECT id FROM tenants WHERE name = $1, and the INSERT when there is none
createDefaultTenant(ts, tenantName, nid) ==
  IF \E t \in ts : t.name = tenantName
  THEN [tenants |-> ts, ret |-> FirstRow({t \in ts : t.name = tenantName}).id, nid |-> nid]
  ELSE [tenants |-> ts \cup {[id |-> nid, name |-> tenantName]}, ret |-> nid,
        nid |-> nid + 1]

\* ... WHERE tenant_id = $n
\* WHERE tenant_id = $1: no row matches a NULL parameter
OfTenant(rows, tenantId) == {r \in rows : tenantId # Nil /\ r.tenant_id = tenantId}

\* the store accepts every statement
NoFault == [table |-> "none", after |-> 0]

\* the table on which the store rejects every DELETE when the fault is "delete"
FaultyTable == "users"
DeleteFails(table) == fault.table = "delete" /\ table = FaultyTable

\* DELETE FROM table WHERE tenant_id = $1, when clearing was asked for
clearExistingData(table, rows, tenantId, clearExisting) ==
  IF clearExisting /\ ~DeleteFails(table) THEN rows \ OfTenant(rows, tenantId) ELSE rows

\* -------------------------------------------------- ID maps from the store
getCustomerIdMap(rows) ==
  [k \in {Str(r.legacy_user_id) : r \in rows} |->
     (CHOOSE r \in rows : Str(r.legacy_user_id) = k /\
         \A q \in rows : q.legacy_user_id = r.legacy_user_id => q.id <= r.id).id]

getLegacyIdMap(rows) ==
  [k \in {Str(r.legacy_id) : r \in rows} |->
     (CHOOSE r \in rows : Str(r.legacy_id) = k /\
         \A q \in rows : q.legacy_id = r.legacy_id => q.id <= r.id).id]

\* ---------------------------------------------------- identity resolver
\* s is the part of the state a line handler reads and writes:
\* [wines, ops, entries, wmap, fmap, vmap, nid]

\* variant: the lookup that trusts the in-memory map and never asks the store
getNewWineId_CacheOnly(s, legacyWineId) ==
  IF MapHas(s.wmap, Num(legacyWineId))
  THEN [s |-> s, ret |-> MapGet(s.wmap, Num(legacyWineId)), threw |-> FALSE]
  ELSE IF legacyWineId = Nil THEN [s |-> s, ret |-> Nil, threw |-> TRUE]
  ELSE [s |-> s, ret |-> Nil, threw |-> FALSE]

getNewWineId(s, legacyWineId) ==
  IF MapHas(s.wmap, Num(legacyWineId))
  THEN [s |-> s, ret |-> MapGet(s.wmap, Num(legacyWineId)), threw |-> FALSE]
  ELSE IF legacyWineId = Nil THEN [s |-> s, ret |-> Nil, threw |-> TRUE]
  ELSE LET rows == {w \in OfTenant(s.wines, s.tenant) : w.legacy_id = legacyWineId} IN
       IF rows = {} THEN [s |-> s, ret |-> Nil, threw |-> FALSE]
       ELSE [s |-> [s EXCEPT !.wmap = MapSet(@, Num(legacyWineId), FirstRow(rows).id)],
             ret |-> FirstRow(rows).id, threw |-> FALSE]

getNewBottleFormatId(s, legacyBottleFormatId) ==
  IF MapHas(s.fmap, Num(legacyBottleFormatId))
  THEN [s |-> s, ret |-> MapGet(s.fmap, Num(legacyBottleFormatId)), threw |-> FALSE]
  ELSE IF legacyBottleFormatId = Nil THEN [s |-> s, ret |-> Nil, threw |-> TRUE]
  ELSE LET rows == {f \in OfTenant(formats, s.tenant) : f.legacy_id = legacyBottleFormatId} IN
       IF rows = {} THEN [s |-> s, ret |-> Nil, threw |-> FALSE]
       ELSE [s |-> [s EXCEPT !.fmap = MapSet(@, Num(legacyBottleFormatId), FirstRow(rows).id)],
             ret |-> FirstRow(rows).id, threw |-> FALSE]

getNewBottleVintageId(s, legacyBottleVintageId) ==
  IF MapHas(s.vmap, Num(legacyBottleVintageId))
  THEN [s |-> s, ret |-> MapGet(s.vmap, Num(legacyBottleVintageId)), threw |-> FALSE]
  ELSE IF legacyBottleVintageId = Nil THEN [s |-> s, ret |-> Nil, threw |-> TRUE]
  ELSE LET rows == {v \in OfTenant(vintages, s.tenant) : v.legacy_id = legacyBottleVintageId} IN
       IF rows = {} THEN [s |-> s, ret |-> Nil, threw |-> FALSE]
       ELSE [s |-> [s EXCEPT !.vmap = MapSet(@, Num(legacyBottleVintageId), FirstRow(rows).id)],
             ret |-> FirstRow(rows).id, threw |-> FALSE]

\* -------------------------------------------------- case-detail backfill
findCaseDetail(caseDetailId) ==
  {d \in caseDetails : d.legacy_case_detail_id = caseDetailId}

CaseDetailProp(d, prop) ==
  CASE prop = "wineId" -> d.legacy_wine_item_id
    [] prop = "bottleFormatId" -> d.legacy_bottle_size_id
    [] prop = "bottleVintageId" -> d.legacy_vintage_id
    [] OTHER -> Nil

getWinePropFromCaseDetailBulk(cmap, caseDetailId, prop) ==
  IF findCaseDetail(caseDetailId) = {} THEN Nil
  ELSE LET d == CHOOSE x \in findCaseDetail(caseDetailId) : TRUE IN
       IF MapGet(cmap, Str(d.legacy_case_id)) = Nil THEN Nil
       ELSE CaseDetailProp(d, prop)

getWinePropFromCaseDetailMig(cmap, caseDetailId, prop) ==
  IF findCaseDetail(caseDetailId) = {} THEN Nil
  ELSE CaseDetailProp(CHOOSE x \in findCaseDetail(caseDetailId) : TRUE, prop)

getWinePropFromCaseDetail(p, cmap, caseDetailId, prop) ==
  IF p = "bulk" THEN getWinePropFromCaseDetailBulk(cmap, caseDetailId, prop)
  ELSE getWinePropFromCaseDetailMig(cmap, caseDetailId, prop)

getCaseIdFromCaseDetail(cmap, caseDetailId) ==
  IF findCaseDetail(caseDetailId) = {} THEN Nil
  ELSE MapGet(cmap, Str((CHOOSE x \in findCaseDetail(caseDetailId) : TRUE).legacy_case_id))

\* ------------------------------------------------------ wine placeholder
InsertWine(s, legacyWineId) ==
  [s |-> [s EXCEPT !.wines = @ \cup {[id |-> s.nid, legacy_id |-> legacyWineId,
                                      placeholder |-> TRUE, tenant_id |-> s.tenant]},
                   !.nid = @ + 1],
   ret |-> s.nid]

createNewWineBulk(s, legacyWineId) ==
  LET rows == {w \in OfTenant(s.wines, s.tenant) : w.legacy_id = legacyWineId} IN
  IF rows # {} THEN [s |-> s, ret |-> FirstRow(rows).id]
  ELSE InsertWine(s, legacyWineId)

createNewWineMig(s, legacyWineId) == InsertWine(s, legacyWineId)

createNewWine(p, s, legacyWineId) ==
  IF p = "bulk" THEN createNewWineBulk(s, legacyWineId)
  ELSE createNewWineMig(s, legacyWineId)

\* ------------------------------------------ validateInventoryActivityDetail
\* ok = FALSE: the bulk importer returns undefined, the migrator an object
\* of nulls
validateInventoryActivityDetail(p, s, cmap, detail) ==
  LET Fail(t) == [s |-> t, ok |-> FALSE, newWineId |-> Nil,
                  newBottleFormatId |-> Nil, newBottleVintageId |-> Nil]
      \* after the try block: r4 is the wine found or the placeholder created
      Checked(legacyWineId, legacyBottleFormatId, legacyBottleVintageId, r2, r3, r4) ==
        IF \/ legacyWineId = Nil \/ legacyBottleFormatId = Nil
           \/ legacyBottleVintageId = Nil
           \/ r4.ret = Nil \/ r2.ret = Nil \/ r3.ret = Nil
        THEN Fail(r4.s)
        ELSE [s |-> r4.s, ok |-> TRUE, newWineId |-> r4.ret,
              newBottleFormatId |-> r2.ret, newBottleVintageId |-> r3.ret]
      WithVintage(legacyWineId, legacyBottleFormatId, legacyBottleVintageId, r1, r2, r3) ==
        IF r3.threw THEN Fail(r2.s)
        ELSE Checked(legacyWineId, legacyBottleFormatId, legacyBottleVintageId, r2, r3,
                     IF r1.ret = Nil THEN createNewWine(p, r3.s, legacyWineId)
                     ELSE [s |-> r3.s, ret |-> r1.ret])
      WithFormat(legacyWineId, legacyBottleFormatId, legacyBottleVintageId, r1, r2) ==
        IF r2.threw THEN Fail(r1.s)
        ELSE WithVintage(legacyWineId, legacyBottleFormatId, legacyBottleVintageId, r1, r2,
                         getNewBottleVintageId(r2.s, legacyBottleVintageId))
      WithWine(legacyWineId, legacyBottleFormatId, legacyBottleVintageId, r1) ==
        IF r1.threw THEN Fail(s)
        ELSE WithFormat(legacyWineId, legacyBottleFormatId, legacyBottleVintageId, r1,
                        getNewBottleFormatId(r1.s, legacyBottleFormatId))
      Resolve(legacyWineId, legacyBottleFormatId, legacyBottleVintageId) ==
        WithWine(legacyWineId, legacyBottleFormatId, legacyBottleVintageId,
                 getNewWineId(s, legacyWineId))
  IN Resolve(IF detail.WineItemID # Nil THEN detail.WineItemID
             ELSE getWinePropFromCaseDetail(p, cmap, detail.CaseDetailID, "wineId"),
             IF detail.BottleSizeID # Nil THEN detail.BottleSizeID
             ELSE getWinePropFromCaseDetail(p, cmap, detail.CaseDetailID, "bottleFormatId"),
             IF detail.VintageID # Nil THEN detail.VintageID
             ELSE getWinePropFromCaseDetail(p, cmap, detail.CaseDetailID, "bottleVintageId"))

\* dataSource.query: the store rejects this INSERT or UPDATE on the table, the
\* writes it accepts first being used up
WriteFails(s, table) == s.fault.table = table /\ s.fault.after = 0

\* dataSource.query: the store has accepted an INSERT or UPDATE on the table
Written(s, table) ==
  [s EXCEPT !.fault.after = IF s.fault.table = table /\ @ > 0 THEN @ - 1 ELSE @]

\* variant: the ledger writer that overwrites the amount of an existing entry
createCaseOperationInventoryEntry_Overwrite(s, caseOperationId, wineId, bottleFormatId, bottleVintageId, amount) ==
  LET existingEntry == {e \in OfTenant(s.entries, s.tenant) :
          /\ e.operation_id = caseOperationId /\ e.wine_id = wineId
          /\ e.bottle_format_id = bottleFormatId
          /\ e.bottle_vintage_id = bottleVintageId}
  IN IF WriteFails(s, "entry") THEN [s EXCEPT !.threw = TRUE]
     ELSE IF existingEntry # {}
     THEN LET ex == FirstRow(existingEntry) IN
          [Written(s, "entry") EXCEPT
             !.entries = (@ \ {ex}) \cup {[ex EXCEPT !.amount = amount]}]
     ELSE [Written(s, "entry") EXCEPT !.entries = @ \cup
             {[id |-> s.nid, tenant_id |-> s.tenant,
               operation_id |-> caseOperationId, wine_id |-> wineId,
               bottle_format_id |-> bottleFormatId,
               bottle_vintage_id |-> bottleVintageId, amount |-> amount,
               case_id |-> Nil]},
           !.nid = @ + 1]

\* ------------------------------------------------ inventory ledger writer
createCaseOperationInventoryEntry(s, caseOperationId, wineId, bottleFormatId, bottleVintageId, amount) ==
  LET existingEntry == {e \in OfTenant(s.entries, s.tenant) :
          /\ e.operation_id = caseOperationId /\ e.wine_id = wineId
          /\ e.bottle_format_id = bottleFormatId
          /\ e.bottle_vintage_id = bottleVintageId}
  IN IF WriteFails(s, "entry") THEN [s EXCEPT !.threw = TRUE]
     ELSE IF existingEntry # {}
     THEN LET ex == FirstRow(existingEntry) IN
          [Written(s, "entry") EXCEPT
             !.entries = (@ \ {ex}) \cup {[ex EXCEPT !.amount = ex.amount + amount]}]
     ELSE [Written(s, "entry") EXCEPT !.entries = @ \cup
             {[id |-> s.nid, tenant_id |-> s.tenant,
               operation_id |-> caseOperationId, wine_id |-> wineId,
               bottle_format_id |-> bottleFormatId,
               bottle_vintage_id |-> bottleVintageId, amount |-> amount,
               case_id |-> Nil]},
           !.nid = @ + 1]

\* -------------------------------------------------------- case operations
InsertOperation(p, s, operationGroupId, activity, caseId, type, line) ==
  IF WriteFails(s, "operation") THEN [s |-> s, ret |-> Nil, threw |-> TRUE]
  ELSE
  [s |-> [Written(s, "operation") EXCEPT !.ops = @ \cup
            {[id |-> s.nid, tenant_id |-> s.tenant, case_id |-> caseId, type |-> type,
              status |-> parseActivityStatus(p, activity.Status),
              logs |-> OperationLogs(p, activity), group_id |-> operationGroupId,
              line |-> line]},
          !.nid = @ + 1],
   ret |-> s.nid, threw |-> FALSE]

\* activityDetail.CaseID.toString() of a null CaseID raises a TypeError, in
\* both scripts outside any try
createCaseOperationFromActivityDetail(p, s, cmap, operationGroupId, detail, activity, line) ==
  IF detail.CaseID = Nil THEN [s |-> s, ret |-> Nil, threw |-> TRUE]
  ELSE IF MapGet(cmap, Str(detail.CaseID)) = Nil THEN [s |-> s, ret |-> Nil, threw |-> FALSE]
  ELSE InsertOperation(p, s, operationGroupId, activity, MapGet(cmap, Str(detail.CaseID)),
                       parseActivityTransactionType(p, activity), line)

createCaseOperationFromActivityTransfer(p, s, operationGroupId, activity, caseId, type, line) ==
  InsertOperation(p, s, operationGroupId, activity, caseId, type, line)

\* variant: the lookup that creates an operation whether or not one exists
getCaseOperation_AlwaysCreate(p, s, cmap, operationGroupId, caseId, activity, detail, line) ==
  createCaseOperationFromActivityDetail(p, s, cmap, operationGroupId, detail, activity, line)

getCaseOperation(p, s, cmap, operationGroupId, caseId, activity, detail, line) ==
  LET caseOperation == {o \in OfTenant(s.ops, s.tenant) :
                          o.group_id = operationGroupId /\ o.case_id = caseId}
  IN IF caseOperation = {}
     THEN createCaseOperationFromActivityDetail(p, s, cmap, operationGroupId, detail,
                                                activity, line)
     ELSE [s |-> s, ret |-> FirstRow(caseOperation).id, threw |-> FALSE]

\* activityDetail.CaseID.toString() of a null CaseID raises a TypeError: the
\* bulk import catches it, logs it and returns undefined; the migrator has no
\* try and the error leaves the function
getCaseOperationFromActivityDetail(p, s, cmap, operationGroupId, detail, activity, line) ==
  IF detail.CaseID = Nil THEN [s |-> s, ret |-> Nil, threw |-> (p # "bulk")]
  ELSE IF MapGet(cmap, Str(detail.CaseID)) = Nil THEN [s |-> s, ret |-> Nil, threw |-> FALSE]
  ELSE getCaseOperation(p, s, cmap, operationGroupId, MapGet(cmap, Str(detail.CaseID)),
                        activity, detail, line)

\* ------------------------------------------------- line handlers (one line)
\* result: "posted"; "skipped"; "threw" (a TypeError leaves the handler);
\* "failed" (the error of a rejected write leaves the handler); "caught" (the
\* error of a rejected ledger write is caught and logged inside the handler)

\* try { await createCaseOperationInventoryEntry(...) } catch (error) { log }
CatchLedgerError(t) ==
  IF t.threw THEN [s |-> t, result |-> "caught"] ELSE [s |-> t, result |-> "posted"]

\* no function of the running script waits on a write; else step is the
\* statement it takes up after the write, and the rest are its local variables
NoLeg ==
  [step |-> 0, sourceCaseId |-> Nil, destinationCaseId |-> Nil, newWineId |-> Nil,
   newBottleFormatId |-> Nil, newBottleVintageId |-> Nil, caseOperationId |-> Nil,
   ok |-> FALSE, tenantId |-> Nil, clearExisting |-> FALSE, todo |-> <<>>, sub |-> 0,
   caseId |-> Nil, customerId |-> Nil]

\* variant: the handler without its check that an operation was found
createOrUpdateCaseOperation_NoOperationCheck(p, s, cmap, operationGroupId, detail, activity, line, locals) ==
  LET Entry(caseOperationId, v) ==
        IF ~v.ok
        THEN [s |-> v.s, result |-> IF p = "bulk" THEN "threw" ELSE "skipped"]
        ELSE CatchLedgerError(
               createCaseOperationInventoryEntry(v.s, caseOperationId, v.newWineId,
                       v.newBottleFormatId, v.newBottleVintageId, detail.Quantity))
      Validated(caseOperationId, t, v) ==
        IF v.s.wines # t.wines
        THEN [s |-> v.s, result |-> "go",
              locals |-> [NoLeg EXCEPT !.step = 2, !.caseOperationId = caseOperationId,
                                       !.ok = v.ok, !.newWineId = v.newWineId,
                                       !.newBottleFormatId = v.newBottleFormatId,
                                       !.newBottleVintageId = v.newBottleVintageId]]
        ELSE Entry(caseOperationId, v)
      WithOperation(r0) ==
        IF r0.threw
        THEN [s |-> r0.s, result |-> IF detail.CaseID = Nil THEN "threw" ELSE "failed"]
        ELSE IF r0.s.ops # s.ops
        THEN [s |-> r0.s, result |-> "go",
              locals |-> [NoLeg EXCEPT !.step = 1, !.caseOperationId = r0.ret]]
        ELSE Validated(r0.ret, r0.s, validateInventoryActivityDetail(p, r0.s, cmap, detail))
  IN IF locals.step = 0
     THEN WithOperation(getCaseOperationFromActivityDetail(p, s, cmap, operationGroupId,
                                                           detail, activity, line))
     ELSE IF locals.step = 1
     THEN Validated(locals.caseOperationId, s,
                    validateInventoryActivityDetail(p, s, cmap, detail))
     ELSE Entry(locals.caseOperationId,
                [s |-> s, ok |-> locals.ok, newWineId |-> locals.newWineId,
                 newBottleFormatId |-> locals.newBottleFormatId,
                 newBottleVintageId |-> locals.newBottleVintageId])

\* the handler of one line from statement locals.step on, up to its next
\* INSERT that the store accepts or else to its end: the lookup of the
\* operation with its INSERT INTO cases_operations (0),
\* validateInventoryActivityDetail with its INSERT INTO wines of the
\* placeholder (1), and the ledger entry (2), each INSERT its own await with
\* no transaction around them; result "go" says that the handler goes on from
\* the statement locals.step
createOrUpdateCaseOperationFromActivityDepositOrWithdrawalActivityDetail(p, s, cmap, operationGroupId, detail, activity, line, locals) ==
  LET Entry(caseOperationId, v) ==
        IF ~v.ok
        \* bulk: destructuring undefined raises a TypeError outside any try
        THEN [s |-> v.s, result |-> IF p = "bulk" THEN "threw" ELSE "skipped"]
        ELSE CatchLedgerError(
               createCaseOperationInventoryEntry(v.s, caseOperationId, v.newWineId,
                       v.newBottleFormatId, v.newBottleVintageId, detail.Quantity))
      Validated(caseOperationId, t, v) ==
        IF v.s.wines # t.wines
        THEN [s |-> v.s, result |-> "go",
              locals |-> [NoLeg EXCEPT !.step = 2, !.caseOperationId = caseOperationId,
                                       !.ok = v.ok, !.newWineId = v.newWineId,
                                       !.newBottleFormatId = v.newBottleFormatId,
                                       !.newBottleVintageId = v.newBottleVintageId]]
        ELSE Entry(caseOperationId, v)
      WithOperation(r0) ==
        \* the lookup threw: the TypeError of a null CaseID, or else the error
        \* of a rejected write
        IF r0.threw
        THEN [s |-> r0.s, result |-> IF detail.CaseID = Nil THEN "threw" ELSE "failed"]
        ELSE IF r0.ret = Nil THEN [s |-> r0.s, result |-> "skipped"]
        ELSE IF r0.s.ops # s.ops
        THEN [s |-> r0.s, result |-> "go",
              locals |-> [NoLeg EXCEPT !.step = 1, !.caseOperationId = r0.ret]]
        ELSE Validated(r0.ret, r0.s, validateInventoryActivityDetail(p, r0.s, cmap, detail))
  IN IF locals.step = 0
     THEN WithOperation(getCaseOperationFromActivityDetail(p, s, cmap, operationGroupId,
                                                           detail, activity, line))
     ELSE IF locals.step = 1
     THEN Validated(locals.caseOperationId, s,
                    validateInventoryActivityDetail(p, s, cmap, detail))
     ELSE Entry(locals.caseOperationId,
                [s |-> s, ok |-> locals.ok, newWineId |-> locals.newWineId,
                 newBottleFormatId |-> locals.newBottleFormatId,
                 newBottleVintageId |-> locals.newBottleVintageId])

\* variant: only the lines of kind Case are left out
TransferLineSkipped_CaseOnly(detail) == detail.ActivityType = "Case"

\* the two returns at the head of the transfer handler: a line of kind Case,
\* and a line of any kind other than Bottle
TransferLineSkipped(detail) ==
  detail.ActivityType = "Case" \/ detail.ActivityType # "Bottle"

\* the transfer handler up to its first write: the two returns on the kind of
\* the line, the two cases, and validateInventoryActivityDetail; result "go"
\* says that the writes follow
TransferHead(p, s, cmap, detail) ==
  LET Validated(sourceCaseId, destinationCaseId, v) ==
        IF ~v.ok
        \* bulk: destructuring undefined raises a TypeError outside any try
        THEN [s |-> v.s, result |-> IF p = "bulk" THEN "threw" ELSE "skipped",
              locals |-> NoLeg]
        ELSE [s |-> v.s, result |-> "go",
              locals |-> [NoLeg EXCEPT !.step = 1, !.sourceCaseId = sourceCaseId,
                                       !.destinationCaseId = destinationCaseId,
                                       !.newWineId = v.newWineId,
                                       !.newBottleFormatId = v.newBottleFormatId,
                                       !.newBottleVintageId = v.newBottleVintageId]]
      WithCases(sourceCaseId, destinationCaseId) ==
        IF sourceCaseId = Nil \/ destinationCaseId = Nil
        THEN [s |-> s, result |-> "skipped", locals |-> NoLeg]
        ELSE Validated(sourceCaseId, destinationCaseId,
                       validateInventoryActivityDetail(p, s, cmap, detail))
  IN IF TransferLineSkipped(detail) THEN [s |-> s, result |-> "skipped", locals |-> NoLeg]
     \* activityDetail.CaseID.toString() on a null CaseID: a TypeError outside any try
     ELSE IF detail.CaseID = Nil THEN [s |-> s, result |-> "threw", locals |-> NoLeg]
     ELSE WithCases(getCaseIdFromCaseDetail(cmap, detail.CaseDetailID),
                    MapGet(cmap, Str(detail.CaseID)))

\* one write of the transfer handler, each its own await with no transaction
\* around them: the withdrawal operation on the source case (1), its ledger
\* entry (2), the deposit operation on the destination case (3), its ledger
\* entry (4); no try around them: a rejected write leaves the handler
TransferWrite(p, s, operationGroupId, detail, activity, line, locals) ==
  LET Inserted(o) ==
        [s |-> [o.s EXCEPT !.threw = o.threw], threw |-> o.threw,
         locals |-> [locals EXCEPT !.step = @ + 1, !.caseOperationId = o.ret]]
      Entered(t) ==
        [s |-> t, threw |-> t.threw, locals |-> [locals EXCEPT !.step = @ + 1]]
  IN IF locals.step \in {1, 3}
     THEN Inserted(createCaseOperationFromActivityTransfer(
                     p, s, operationGroupId, activity,
                     IF locals.step = 1 THEN locals.sourceCaseId
                     ELSE locals.destinationCaseId,
                     IF locals.step = 1 THEN "withdrawal" ELSE "deposit", line))
     ELSE Entered(createCaseOperationInventoryEntry(
                    s, locals.caseOperationId, locals.newWineId,
                    locals.newBottleFormatId, locals.newBottleVintageId,
                    detail.Quantity))

\* the writes of the transfer handler from statement locals.step on
RECURSIVE TransferWrites(_, _, _, _, _, _, _)
TransferWrites(p, s, operationGroupId, detail, activity, line, locals) ==
  LET After(w) ==
        IF w.threw THEN [s |-> w.s, result |-> "failed"]
        ELSE TransferWrites(p, w.s, operationGroupId, detail, activity, line, w.locals)
  IN IF locals.step > 4 THEN [s |-> s, result |-> "posted"]
     ELSE After(TransferWrite(p, s, operationGroupId, detail, activity, line, locals))

\* the whole handler of one line
createCaseOperationFromActivityTransferActivityDetail(p, s, cmap, operationGroupId, detail, activity, line) ==
  LET Writes(h) ==
        IF h.result # "go" THEN [s |-> h.s, result |-> h.result]
        ELSE TransferWrites(p, h.s, operationGroupId, detail, activity, line, h.locals)
  IN Writes(TransferHead(p, s, cmap, detail))

\* ------------------------------------------------------------ the scripts
Pack == [wines |-> wines, ops |-> ops, entries |-> entries, wmap |-> wineMapId,
         fmap |-> bottleFormatMapId, vmap |-> bottleVintageMapId, nid |-> nextId,
         fault |-> fault, threw |-> FALSE, tenant |-> defaultTenantId]

Unpack(s) ==
  /\ wines' = s.wines
  /\ ops' = s.ops
  /\ entries' = s.entries
  /\ wineMapId' = s.wmap
  /\ bottleFormatMapId' = s.fmap
  /\ bottleVintageMapId' = s.vmap
  /\ nextId' = s.nid
  /\ fault' = s.fault

At(p, pos) == [prog |-> p, at |-> pos]
\* no script is running; p is the script the operator runs on this store
Idle(p) == At(p, "idle")

\* what the loop over the lines does with the outcome r of the handler of
\* line number idx, of n lines
LineDone(p, line, n, r) ==
  /\ Unpack(r.s)
  /\ handled' = handled \cup {[gid |-> gid, line |-> line, result |-> r.result]}
  /\ IF r.result \in {"threw", "failed"}
     THEN pc' = Idle(p) /\ outcome' = "aborted" /\ idx' = idx
     ELSE IF idx < n
     THEN pc' = pc /\ outcome' = outcome /\ idx' = idx + 1
     ELSE IF p = "bulk"
     THEN pc' = At(p, "next") /\ outcome' = outcome /\ idx' = idx
     ELSE pc' = Idle(p) /\ outcome' = "completed" /\ idx' = idx

\* the loop of createCaseOperationsFromActivityDepositOrWithdrawal: the
\* handler of one line up to its next INSERT, or to its end; the store is seen
\* by others between any two of its writes
DepositOrWithdrawalDetail(p) ==
  /\ pc = At(p, "dw")
  /\ LET Handle(line, n, r) ==
           IF r.result = "go"
           THEN /\ Unpack(r.s)
                /\ leg' = r.locals
                /\ UNCHANGED <<handled, pc, outcome, idx>>
           ELSE LineDone(p, line, n, r) /\ leg' = NoLeg
         Loop(details) ==
           Handle(details[idx], Len(details),
             createOrUpdateCaseOperationFromActivityDepositOrWithdrawalActivityDetail(
               p, Pack, caseIdMap, gid, activityDetails[details[idx]], cur, details[idx],
               leg))
     IN Loop(getInventoryActivityDetails(activityDetails, cur.ActivityID))
  /\ UNCHANGED <<orchestrator, errors, tenants, defaultTenantId,
                 legacyVars, refVars, groups, customerIdMap, caseIdMap, queue, cur,
                 gid, arg, runs, posted>>

\* the loop of createCaseOperationsFromActivityTransfer: one statement of the
\* handler of one line, that is its head up to the first write, or one of
\* its four writes; the store is seen by others between any two of them
TransferDetail(p) ==
  /\ pc = At(p, "t")
  /\ LET Finish(line, n, r) == LineDone(p, line, n, r) /\ leg' = NoLeg
         Continue(r) ==
           /\ Unpack(r.s)
           /\ leg' = r.locals
           /\ UNCHANGED <<handled, pc, outcome, idx>>
         AfterHead(line, n, h) ==
           IF h.result = "go" THEN Continue(h)
           ELSE Finish(line, n, [s |-> h.s, result |-> h.result])
         AfterWrite(line, n, w) ==
           IF w.threw THEN Finish(line, n, [s |-> w.s, result |-> "failed"])
           ELSE IF w.locals.step > 4 THEN Finish(line, n, [s |-> w.s, result |-> "posted"])
           ELSE Continue(w)
         Handle(line, n) ==
           IF leg.step = 0
           THEN AfterHead(line, n, TransferHead(p, Pack, caseIdMap, activityDetails[line]))
           ELSE AfterWrite(line, n, TransferWrite(p, Pack, gid, activityDetails[line],
                                                  cur, line, leg))
         Loop(details) == Handle(details[idx], Len(details))
     IN Loop(getInventoryActivityDetails(activityDetails, cur.ActivityID))
  /\ UNCHANGED <<orchestrator, errors, tenants, defaultTenantId,
                 legacyVars, refVars, groups, customerIdMap, caseIdMap, queue, cur,
                 gid, arg, runs, posted>>

\* the whole loop of createCaseOperationsFromActivityDepositOrWithdrawal or of
\* createCaseOperationsFromActivityTransfer over the lines taken in the given
\* order, from store s: the store it leaves, the lines skipped, and whether an
\* exception ended it
RECURSIVE createCaseOperationsFromActivity(_, _, _, _, _, _)
createCaseOperationsFromActivity(p, s, cmap, operationGroupId, activity, order) ==
  LET Rest(r, rest) ==
        [s |-> rest.s,
         skipped |-> rest.skipped \cup (IF r.result = "skipped" THEN {Head(order)} ELSE {}),
         aborted |-> rest.aborted]
      \* the handler goes on after its INSERT
      Again(r) ==
        IF r.result # "go" THEN r
        ELSE createOrUpdateCaseOperationFromActivityDepositOrWithdrawalActivityDetail(
               p, r.s, cmap, operationGroupId, activityDetails[Head(order)], activity,
               Head(order), r.locals)
      Step(r) ==
        IF r.result \in {"threw", "failed"}
        THEN [s |-> r.s, skipped |-> {}, aborted |-> TRUE]
        ELSE Rest(r, createCaseOperationsFromActivity(p, r.s, cmap, operationGroupId,
                                                      activity, Tail(order)))
  IN IF order = <<>> THEN [s |-> s, skipped |-> {}, aborted |-> FALSE]
     ELSE IF activity.TransactionType = "T"
     THEN Step(createCaseOperationFromActivityTransferActivityDetail(
                 p, s, cmap, operationGroupId, activityDetails[Head(order)], activity,
                 Head(order)))
     ELSE Step(Again(Again(
                 createOrUpdateCaseOperationFromActivityDepositOrWithdrawalActivityDetail(
                   p, s, cmap, operationGroupId, activityDetails[Head(order)], activity,
                   Head(order), NoLeg))))

\* INSERT INTO operations_groups
InsertGroup(p, tenantId, id, customerId, activity) ==
  [id |-> id, tenant_id |-> tenantId, customer_id |-> customerId,
   status |-> parseActivityStatus(p, activity.Status), act |-> activity.ActivityID]

\* the sequences that hold every element of S once
Orders(S) == {f \in [1..Cardinality(S) -> S] : \A a, b \in DOMAIN f : a # b => f[a] # f[b]}

\* ------------------------------------------- single-activity migrator
findActivityById(activityId) ==
  {i \in 1..Len(activities) : activities[i].ActivityID = activityId}

validateDependencies(tenantId, activity) ==
  /\ \E u \in OfTenant(users, tenantId) : u.legacy_user_id = activity.AccountID
  /\ \A i \in 1..Len(activityDetails) :
       (/\ activityDetails[i].ActivityID = activity.ActivityID
        /\ activityDetails[i].ActivityType # "Supply")
       => \E c \in OfTenant(cases, tenantId) : c.legacy_id = activityDetails[i].CaseID

\* the groups whose case operations carry the activity id in their logs
findExistingOperationGroup(gs, os, activityId) ==
  {g \in gs : \E o \in os : o.group_id = g.id /\ Like(o.logs, LikePattern(activityId))}

\* clearExistingActivityData from the DELETE locals.sub for the group
\* Head(locals.todo) up to the first DELETE that removes a row, or else to its
\* end: for every row of its SELECT the DELETE of the ledger entries (1), of
\* the case operations (2) and of the group (3), each its own await with no
\* transaction around them. The three DELETEs keep the rows of other tenants;
\* the sub-select of the first one reads the operations of the group whatever
\* their tenant
RECURSIVE clearExistingActivityData(_, _, _, _, _)
clearExistingActivityData(tenantId, gs, os, es, locals) ==
  IF locals.todo = <<>>
  THEN [groups |-> gs, ops |-> os, entries |-> es, done |-> TRUE, locals |-> NoLeg]
  ELSE LET operationGroupId == Head(locals.todo)
           Deleted(gs2, os2, es2, next) ==
             IF gs2 # gs \/ os2 # os \/ es2 # es
             THEN [groups |-> gs2, ops |-> os2, entries |-> es2, done |-> FALSE,
                   locals |-> next]
             ELSE clearExistingActivityData(tenantId, gs, os, es, next)
       IN IF locals.sub = 1
          THEN Deleted(gs, os,
                       es \ {x \in OfTenant(es, tenantId) :
                               \E o \in os : o.group_id = operationGroupId
                                             /\ x.operation_id = o.id},
                       [locals EXCEPT !.sub = 2])
          ELSE IF locals.sub = 2
          THEN Deleted(gs, os \ {o \in OfTenant(os, tenantId) : o.group_id = operationGroupId},
                       es, [locals EXCEPT !.sub = 3])
          ELSE Deleted(gs \ {g \in OfTenant(gs, tenantId) : g.id = operationGroupId}, os, es,
                       [locals EXCEPT !.todo = Tail(@), !.sub = 1])

\* variant: clearExistingActivityData runs before validateDependencies
migrate_ClearFirst(tenantId, activityId, clearExisting, locals) ==
  LET kept == [groups |-> groups, ops |-> ops, entries |-> entries]
      Left(result, wasCleared, rows, l) ==
        [result |-> result, cleared |-> wasCleared, groups |-> rows.groups,
         ops |-> rows.ops, entries |-> rows.entries, locals |-> l]
      Cleared(c) ==
        IF ~c.done THEN Left("go", clearExisting, c, c.locals)
        ELSE IF ~validateDependencies(tenantId, activities[Min(findActivityById(activityId))])
        THEN Left("threw", clearExisting, c, NoLeg)
        ELSE IF /\ findExistingOperationGroup(OfTenant(c.groups, tenantId), c.ops,
                                              activityId) # {}
                /\ ~clearExisting
        THEN Left("returned", clearExisting, c, NoLeg)
        ELSE Left("load", clearExisting, c, NoLeg)
      Clear(l) ==
        Cleared(IF clearExisting
                THEN clearExistingActivityData(tenantId, groups, ops, entries, l)
                ELSE [groups |-> groups, ops |-> ops, entries |-> entries, done |-> TRUE])
  IN IF locals.step = 2 THEN Clear(locals)
     ELSE IF findActivityById(activityId) = {} THEN Left("threw", FALSE, kept, NoLeg)
     ELSE Clear([locals EXCEPT !.step = 2])

\* migrate() from findActivityById (locals.step = 1), or from the DELETE at
\* which clearExistingActivityData was left (2), up to the next DELETE that
\* removes a row or else to the check of findExistingOperationGroup; result:
\* "threw", an error left it; "returned", the activity is already migrated;
\* "go", it goes on from locals after a DELETE; "load", loadMappings follows.
\* cleared tells whether clearExistingActivityData was called; locals.todo
\* holds the rows of its SELECT that are still to clear
migrate(tenantId, activityId, clearExisting, locals) ==
  LET kept == [groups |-> groups, ops |-> ops, entries |-> entries]
      Left(result, wasCleared, rows, l) ==
        [result |-> result, cleared |-> wasCleared, groups |-> rows.groups,
         ops |-> rows.ops, entries |-> rows.entries, locals |-> l]
      Cleared(c) ==
        IF ~c.done THEN Left("go", clearExisting, c, c.locals)
        ELSE IF /\ findExistingOperationGroup(OfTenant(c.groups, tenantId), c.ops,
                                              activityId) # {}
                /\ ~clearExisting
        THEN Left("returned", clearExisting, c, NoLeg)
        ELSE Left("load", clearExisting, c, NoLeg)
      Clear(l) ==
        Cleared(IF clearExisting
                THEN clearExistingActivityData(tenantId, groups, ops, entries, l)
                ELSE [groups |-> groups, ops |-> ops, entries |-> entries, done |-> TRUE])
  IN IF locals.step = 2 THEN Clear(locals)
     ELSE IF findActivityById(activityId) = {} THEN Left("threw", FALSE, kept, NoLeg)
     ELSE IF ~validateDependencies(tenantId, activities[Min(findActivityById(activityId))])
     THEN \* throw before any write to the tables of the reconciliation
          Left("threw", FALSE, kept, NoLeg)
     ELSE Clear([locals EXCEPT !.step = 2])

\* migrate() up to its next write that changes the store, or else to the
\* dispatch of migrateActivity: the process starts with empty Maps and no
\* tenant; createDefaultTenant with its INSERT INTO tenants, the steps of
\* migrate above with the DELETEs of clearExistingActivityData, whose SELECT
\* returns its rows in an order the query does not fix, then loadMappings and
\* the head of migrateActivity with its INSERT INTO operations_groups. cleared
\* records whether the run called clearExistingActivityData
MigrateBegin(activityId, clearExisting) ==
  /\ IF pc = Idle("mig") THEN runs < MaxRuns
     ELSE /\ pc = At("mig", "migrate")
          /\ arg.activityId = activityId
          /\ arg.clearExisting = clearExisting
  /\ runs' = IF pc = Idle("mig") THEN runs + 1 ELSE runs
  /\ handled' = handled
  /\ idx' = 1
  /\ UNCHANGED <<orchestrator, errors, legacyVars, refVars, wines, queue, posted>>
  /\ LET NoMaps ==
           /\ customerIdMap' = EmptyMap
           /\ caseIdMap' = EmptyMap
           /\ wineMapId' = EmptyMap
           /\ bottleFormatMapId' = EmptyMap
           /\ bottleVintageMapId' = EmptyMap
         Called(wasCleared) ==
           arg' = [activityId |-> activityId, clearExisting |-> clearExisting,
                   cleared |-> wasCleared]
         \* loadMappings and migrateActivity
         Activity(tenantId, m, activity, cmap) ==
           /\ customerIdMap' = cmap
           /\ caseIdMap' = getLegacyIdMap(OfTenant(cases, tenantId))
           /\ wineMapId' = getLegacyIdMap(OfTenant(wines, tenantId))
           /\ bottleFormatMapId' = getLegacyIdMap(OfTenant(formats, tenantId))
           /\ bottleVintageMapId' = getLegacyIdMap(OfTenant(vintages, tenantId))
           /\ cur' = activity
           /\ leg' = NoLeg
           /\ IF MapGet(cmap, Str(activity.AccountID)) = Nil \/ WriteFails(Pack, "group")
              THEN \* no customer, or the INSERT of the group is rejected
                   /\ groups' = m.groups
                   /\ pc' = Idle("mig") /\ outcome' = "aborted"
                   /\ UNCHANGED <<fault, gid, nextId>>
              ELSE /\ groups' = m.groups \cup
                        {InsertGroup("mig", tenantId, nextId,
                                     MapGet(cmap, Str(activity.AccountID)), activity)}
                   /\ fault' = Written(Pack, "group").fault
                   /\ gid' = nextId
                   /\ nextId' = nextId + 1
                   /\ IF getInventoryActivityDetails(activityDetails,
                                                     activity.ActivityID) = <<>>
                      THEN pc' = Idle("mig") /\ outcome' = "completed"
                      ELSE IF activity.TransactionType \in {"D", "W"}
                      THEN pc' = At("mig", "dw") /\ outcome' = outcome
                      ELSE IF activity.TransactionType = "T"
                      THEN pc' = At("mig", "t") /\ outcome' = outcome
                      ELSE pc' = Idle("mig") /\ outcome' = "completed"
         Migrate(tenantId, m) ==
           /\ tenants' = tenants
           /\ defaultTenantId' = tenantId
           /\ Called((pc # Idle("mig") /\ arg.cleared) \/ m.cleared)
           /\ ops' = m.ops
           /\ entries' = m.entries
           /\ IF m.result = "load"
              THEN Activity(tenantId, m, activities[Min(findActivityById(activityId))],
                            getCustomerIdMap(OfTenant(users, tenantId)))
              ELSE /\ groups' = m.groups
                   /\ NoMaps
                   /\ leg' = m.locals
                   /\ pc' = IF m.result = "go" THEN At("mig", "migrate") ELSE Idle("mig")
                   /\ outcome' = IF m.result = "threw" THEN "aborted"
                                 ELSE IF m.result = "returned" THEN "skipped"
                                 ELSE outcome
                   /\ UNCHANGED <<fault, cur, gid, nextId>>
         WithTenant(tenantId) ==
           IF leg.step = 2
           THEN Migrate(tenantId, migrate(tenantId, activityId, clearExisting, leg))
           ELSE \E order \in Orders({g.id : g \in findExistingOperationGroup(
                                                 OfTenant(groups, tenantId), ops,
                                                 activityId)}) :
                  Migrate(tenantId,
                          migrate(tenantId, activityId, clearExisting,
                                  [NoLeg EXCEPT !.step = 1, !.todo = order, !.sub = 1]))
         Created(t) ==
           IF t.tenants # tenants
           THEN \* at the await of the INSERT INTO tenants
                /\ tenants' = t.tenants
                /\ nextId' = t.nid
                /\ defaultTenantId' = Nil
                /\ Called(FALSE)
                /\ NoMaps
                /\ leg' = [NoLeg EXCEPT !.step = 1, !.tenantId = t.ret]
                /\ pc' = At("mig", "migrate")
                /\ UNCHANGED <<groups, ops, entries, fault, cur, gid, outcome>>
           ELSE WithTenant(t.ret)
     IN IF pc = Idle("mig")
        THEN Created(createDefaultTenant(tenants, DefaultTenantName, nextId))
        ELSE IF leg.step = 1 THEN WithTenant(leg.tenantId)
        ELSE WithTenant(defaultTenantId)

\* variant: the activities of the customer whatever their status
getCustomerActivities_AnyStatus(legacyAccountId) ==
  SelectSeq([i \in 1..Len(activities) |-> i],
            LAMBDA i : /\ activities[i].AccountID # Nil
                       /\ Str(activities[i].AccountID) = legacyAccountId)

\* variant: the activities of every account, whoever the customer is
getCustomerActivities_AnyAccount(legacyAccountId) ==
  SelectSeq([i \in 1..Len(activities) |-> i],
            LAMBDA i : /\ activities[i].AccountID # Nil
                       /\ activities[i].Status = 1)

\* ------------------------------------------------------- bulk importer
\* indices of the activities of one customer that pass the status filter
getCustomerActivities(legacyAccountId) ==
  SelectSeq([i \in 1..Len(activities) |-> i],
            LAMBDA i : /\ activities[i].AccountID # Nil
                       /\ Str(activities[i].AccountID) = legacyAccountId
                       /\ activities[i].Status = 1)

RECURSIVE WorkList(_, _)
\* for (const [legacyAccountId, customerId] of customerIdMap)
\*   for (const activity of getCustomerActivities(legacyAccountId))
WorkList(order, cmap) ==
  IF order = <<>> THEN <<>>
  ELSE LET acts == getCustomerActivities(Head(order))
       IN [k \in 1..Len(acts) |-> [act |-> acts[k], customerId |-> cmap[Head(order)]]]
          \o WorkList(Tail(order), cmap)

\* the loop of seedCases from the case number Head(todo) of the file up to its
\* next INSERT INTO cases: a case of the file is inserted unless a case of its
\* legacy id exists, its account is not in accounts.json, or no user has the
\* account's legacy id; st is [cases, nid]. With inserted, todo begins with
\* the case of the INSERT and newUser holds the rows of the SELECT of its user
RECURSIVE seedCases(_, _, _, _)
seedCases(st, us, tenantId, todo) ==
  IF todo = <<>>
  THEN [cases |-> st.cases, nid |-> st.nid, inserted |-> FALSE, todo |-> todo,
        newUser |-> {}]
  ELSE LET caseData == legacyCases[Head(todo)]
           newUser == {u \in us : u.legacy_user_id = caseData.legacy_account_id}
       IN IF \/ \E c \in st.cases : c.legacy_id = caseData.legacy_case_id
             \/ \A i \in DOMAIN legacyData.accounts :
                  legacyData.accounts[i].legacy_account_id # caseData.legacy_account_id
             \/ newUser = {}
          THEN seedCases(st, us, tenantId, Tail(todo))
          ELSE [cases |-> st.cases \cup {[id |-> st.nid,
                                          legacy_id |-> caseData.legacy_case_id,
                                          tenant_id |-> tenantId]},
                nid |-> st.nid + 1, inserted |-> TRUE, todo |-> todo,
                newUser |-> newUser]

\* seed() up to its next write that changes the store, or else to the loop of
\* seedOperationGroups: the process starts with empty Maps and no tenant;
\* createDefaultTenant with its INSERT INTO tenants, the DELETEs of
\* clearExistingData when asked for, seedCases with one INSERT INTO cases for
\* a case, after which it sets the case and its customer in the two Maps, and
\* the two Maps read from the store; the Map iterates in the order in which
\* the SELECT returned the users, which the query does not fix. Each write is
\* its own await with no transaction around them. The script is run at most
\* limit times.
BulkBeginWith(limit, clearExisting) ==
  /\ IF pc = Idle("bulk") THEN runs < limit
     ELSE pc = At("bulk", "seed") /\ leg.clearExisting = clearExisting
  /\ runs' = IF pc = Idle("bulk") THEN runs + 1 ELSE runs
  /\ LET Rows(e, o, g, c) ==
           entries' = e /\ ops' = o /\ groups' = g /\ cases' = c
         \* at the await of a write, with the locals l
         Await(tenantId, l) ==
           /\ tenants' = tenants
           /\ defaultTenantId' = tenantId
           /\ leg' = [l EXCEPT !.clearExisting = clearExisting]
           /\ pc' = At("bulk", "seed")
           /\ queue' = queue
         \* seedOperationGroups up to its loop
         Groups(tenantId) ==
           /\ tenants' = tenants
           /\ defaultTenantId' = tenantId
           /\ Rows(entries, ops, groups, cases)
           /\ nextId' = nextId
           /\ customerIdMap' = getCustomerIdMap(OfTenant(users, tenantId))
           /\ caseIdMap' = getLegacyIdMap(OfTenant(cases, tenantId))
           /\ \E order \in Orders(DOMAIN getCustomerIdMap(OfTenant(users, tenantId))) :
                queue' = WorkList(order, getCustomerIdMap(OfTenant(users, tenantId)))
           /\ leg' = NoLeg
           /\ pc' = At("bulk", "next")
         Seeded(tenantId, c, customers, caseIds) ==
           IF c.inserted
           THEN /\ Rows(entries, ops, groups, c.cases)
                /\ nextId' = c.nid
                /\ customerIdMap' = customers
                /\ caseIdMap' = caseIds
                /\ \E u \in c.newUser :
                     Await(tenantId, [NoLeg EXCEPT !.step = 3, !.todo = c.todo,
                                                   !.caseId = c.nid - 1,
                                                   !.customerId = u.id])
           ELSE Groups(tenantId)
         Seed(tenantId) ==
           IF pc # Idle("bulk") /\ leg.step = 3
           THEN \* after the INSERT of the case Head(leg.todo)
                Seeded(tenantId,
                       seedCases([cases |-> cases, nid |-> nextId], users, tenantId,
                                 Tail(leg.todo)),
                       MapSet(customerIdMap,
                              Str(legacyCases[Head(leg.todo)].legacy_account_id),
                              leg.customerId),
                       MapSet(caseIdMap, Str(legacyCases[Head(leg.todo)].legacy_case_id),
                              leg.caseId))
           ELSE Seeded(tenantId,
                       seedCases([cases |-> cases, nid |-> nextId], users, tenantId,
                                 [i \in 1..Len(legacyCases) |-> i]),
                       EmptyMap, EmptyMap)
         Deleted(tenantId, e, o, g, c) ==
           /\ Rows(e, o, g, c)
           /\ nextId' = nextId
           /\ customerIdMap' = EmptyMap
           /\ caseIdMap' = EmptyMap
         \* clearExistingData from its DELETE number sub on
         Clear(tenantId, sub) ==
           LET Del(i) == clearExistingData(
                           <<"wine_inventory_entries", "cases_operations",
                             "operations_groups", "cases">>[i],
                           <<entries, ops, groups, cases>>[i], tenantId, clearExisting)
               Next(i) == [NoLeg EXCEPT !.step = 2, !.sub = i + 1]
           IN IF sub <= 1 /\ Del(1) # entries
              THEN Deleted(tenantId, Del(1), ops, groups, cases) /\ Await(tenantId, Next(1))
              ELSE IF sub <= 2 /\ Del(2) # ops
              THEN Deleted(tenantId, entries, Del(2), groups, cases) /\ Await(tenantId, Next(2))
              ELSE IF sub <= 3 /\ Del(3) # groups
              THEN Deleted(tenantId, entries, ops, Del(3), cases) /\ Await(tenantId, Next(3))
              ELSE IF sub <= 4 /\ Del(4) # cases
              THEN Deleted(tenantId, entries, ops, groups, Del(4)) /\ Await(tenantId, Next(4))
              ELSE Seed(tenantId)
         Created(t) ==
           IF t.tenants # tenants
           THEN \* at the await of the INSERT INTO tenants
                /\ tenants' = t.tenants
                /\ defaultTenantId' = Nil
                /\ Rows(entries, ops, groups, cases)
                /\ nextId' = t.nid
                /\ customerIdMap' = EmptyMap
                /\ caseIdMap' = EmptyMap
                /\ leg' = [NoLeg EXCEPT !.step = 1, !.tenantId = t.ret,
                                        !.clearExisting = clearExisting]
                /\ pc' = At("bulk", "seed")
                /\ queue' = queue
           ELSE Clear(t.ret, 1)
     IN IF pc = Idle("bulk")
        THEN Created(createDefaultTenant(tenants, DefaultTenantName, nextId))
        ELSE IF leg.step = 1 THEN Clear(leg.tenantId, 1)
        ELSE IF leg.step = 2 THEN Clear(defaultTenantId, leg.sub)
        ELSE Seed(defaultTenantId)
  /\ wineMapId' = EmptyMap
  /\ bottleFormatMapId' = EmptyMap
  /\ bottleVintageMapId' = EmptyMap
  /\ UNCHANGED <<fault, orchestrator, errors, legacyVars, users, formats, vintages,
                 imported, wines, cur, gid, idx, arg, outcome, handled, posted>>

\* seed() without --clear-existing
BulkBegin(limit) == BulkBeginWith(limit, FALSE)

\* createOperationGroup: the insert and the dispatch on TransactionType
BulkCreateOperationGroup ==
  /\ pc = At("bulk", "next")
  /\ queue # <<>>
  /\ LET activity == activities[Head(queue).act]
         details == getInventoryActivityDetails(activityDetails, activity.ActivityID)
     IN IF WriteFails(Pack, "group")
        THEN \* the INSERT of the group is rejected: the error leaves seed()
             /\ pc' = Idle("bulk") /\ outcome' = "aborted"
             /\ UNCHANGED <<fault, groups, gid, nextId, cur, idx>>
        ELSE
        /\ fault' = Written(Pack, "group").fault
        /\ groups' = groups \cup {InsertGroup("bulk", defaultTenantId, nextId,
                                             Head(queue).customerId, activity)}
        /\ gid' = nextId
        /\ nextId' = nextId + 1
        /\ cur' = activity
        /\ idx' = 1
        /\ pc' = IF details = <<>> THEN pc
                 ELSE IF activity.TransactionType \in {"D", "W"} THEN At("bulk", "dw")
                 ELSE IF activity.TransactionType = "T" THEN At("bulk", "t")
                 ELSE pc
        /\ outcome' = outcome
  /\ queue' = Tail(queue)
  /\ UNCHANGED <<orchestrator, errors, tenants, defaultTenantId,
                 legacyVars, refVars, wines, ops, entries, mapVars, arg, runs,
                 handled, posted, leg>>

\* the INSERT of the snapshot entry of a case detail
InsertSnapshot(s, caseDetail, wineId, bottleFormatId, bottleVintageId, caseId) ==
  [Written(s, "entry") EXCEPT !.entries = @ \cup
     {[id |-> s.nid, tenant_id |-> s.tenant, operation_id |-> Nil, wine_id |-> wineId,
       bottle_format_id |-> bottleFormatId, bottle_vintage_id |-> bottleVintageId,
       amount |-> caseDetail.WineQuantity, case_id |-> caseId]},
            !.nid = @ + 1]

\* the body of the loop of seedWineInventoryEntriesFromCaseDetails for one case
\* detail: every failed check, and every error, skips the case detail
seedSnapshotEntry(s, cmap, caseDetail) ==
  LET WithVintage(r, wineId, bottleFormatId) ==
        IF r.threw \/ r.ret = Nil THEN r.s
        ELSE IF caseDetail.WineQuantity <= 0 THEN r.s
        ELSE IF caseDetail.legacy_case_id = Nil THEN r.s
        ELSE IF MapGet(cmap, Str(caseDetail.legacy_case_id)) = Nil THEN r.s
        ELSE IF WriteFails(r.s, "entry") THEN r.s
        ELSE InsertSnapshot(r.s, caseDetail, wineId, bottleFormatId, r.ret,
                            MapGet(cmap, Str(caseDetail.legacy_case_id)))
      WithFormat(r, wineId) ==
        IF r.threw \/ r.ret = Nil THEN r.s
        ELSE WithVintage(getNewBottleVintageId(r.s, caseDetail.legacy_vintage_id),
                         wineId, r.ret)
      WithWine(r) ==
        IF r.threw \/ r.ret = Nil THEN r.s
        ELSE WithFormat(getNewBottleFormatId(r.s, caseDetail.legacy_bottle_size_id), r.ret)
  IN IF caseDetail.legacy_wine_item_id = Nil THEN s
     ELSE WithWine(getNewWineId(s, caseDetail.legacy_wine_item_id))

RECURSIVE seedSnapshotEntries(_, _, _)
\* for (const caseDetail of this.legacyData.caseDetails), from the case detail
\* number Head(todo) of the file up to the next INSERT, or else to the end
seedSnapshotEntries(s, cmap, todo) ==
  LET Seeded(t) ==
        IF t.entries # s.entries
        THEN [s |-> t, done |-> FALSE,
              locals |-> [NoLeg EXCEPT !.step = 1, !.todo = Tail(todo)]]
        ELSE seedSnapshotEntries(t, cmap, Tail(todo))
  IN IF todo = <<>> THEN [s |-> s, done |-> TRUE, locals |-> NoLeg]
     ELSE Seeded(seedSnapshotEntry(s, cmap, caseDetailsFile[Head(todo)]))

\* seedWineInventoryEntriesFromCaseDetails up to its next write that changes
\* the store, or else to its end: the maps are read again from the store, the
\* tenant's entries without an operation are deleted, and one entry is
\* inserted for every case detail that passes the checks, each write its own
\* await with no transaction around them
seedWineInventoryEntriesFromCaseDetails(s, cmap, locals) ==
  LET Deleted(t) ==
        IF t.entries # s.entries
        THEN [s |-> t, done |-> FALSE,
              locals |-> [NoLeg EXCEPT !.step = 1,
                                       !.todo = [i \in 1..Len(caseDetailsFile) |-> i]]]
        ELSE seedSnapshotEntries(s, cmap, [i \in 1..Len(caseDetailsFile) |-> i])
  IN IF locals.step = 1 THEN seedSnapshotEntries(s, cmap, locals.todo)
     ELSE IF caseDetailsFile = <<>> THEN [s |-> s, done |-> TRUE, locals |-> NoLeg]
     ELSE Deleted([s EXCEPT !.entries =
                     {x \in @ : ~(x.tenant_id = s.tenant /\ x.operation_id = Nil)}])

\* the end of seed(): seedOperationGroups has visited every activity, and
\* seedWineInventoryEntriesFromCaseDetails runs, up to its next write or to
\* its end
BulkEnd ==
  /\ IF pc = At("bulk", "next") THEN queue = <<>> ELSE pc = At("bulk", "snapshot")
  /\ LET Seeded(r) ==
           /\ Unpack(r.s)
           /\ leg' = r.locals
           /\ pc' = IF r.done THEN Idle("bulk") ELSE At("bulk", "snapshot")
           /\ outcome' = IF r.done THEN "completed" ELSE outcome
     IN IF pc = At("bulk", "next")
        THEN /\ customerIdMap' = getCustomerIdMap(OfTenant(users, defaultTenantId))
             /\ caseIdMap' = getLegacyIdMap(OfTenant(cases, defaultTenantId))
             /\ Seeded(seedWineInventoryEntriesFromCaseDetails(
                         [Pack EXCEPT
                            !.wmap = getLegacyIdMap(OfTenant(wines, defaultTenantId)),
                            !.fmap = getLegacyIdMap(OfTenant(formats, defaultTenantId)),
                            !.vmap = getLegacyIdMap(OfTenant(vintages, defaultTenantId))],
                         getLegacyIdMap(OfTenant(cases, defaultTenantId)), NoLeg))
        ELSE /\ UNCHANGED <<customerIdMap, caseIdMap>>
             /\ Seeded(seedWineInventoryEntriesFromCaseDetails(Pack, caseIdMap, leg))
  /\ UNCHANGED <<orchestrator, errors, tenants, defaultTenantId,
                 legacyVars, refVars, groups, queue, cur, gid, idx, arg, runs,
                 handled, posted>>

\* ------------------------------------------------------ reference imports
\* import-wine-data seed() up to its next write that changes the store, or
\* else to its end: its own createDefaultTenant with its INSERT INTO tenants,
\* the DELETEs of clearExistingData, which take the tenant's rows and then
\* the wines of every other tenant and of none, and one INSERT for each
\* vintage, each bottle size and each wine of the files. Each write is its
\* own await with no transaction around them.
WineImport ==
  /\ IF pc.at = "idle" THEN "wine" \notin imported ELSE pc.at = "wine"
  /\ LET Rows(e, o, g, c, w, f, v, n) ==
           /\ entries' = e /\ ops' = o /\ groups' = g /\ cases' = c
           /\ wines' = w /\ formats' = f /\ vintages' = v /\ nextId' = n
         \* at the await of a write, with the locals l
         Await(tenantId, l) ==
           /\ tenants' = tenants
           /\ defaultTenantId' = tenantId
           /\ leg' = l
           /\ pc' = At(pc.prog, "wine")
           /\ imported' = imported
         Row(legacyId, tenantId) ==
           [id |-> nextId, legacy_id |-> legacyId, tenant_id |-> tenantId]
         \* seedWineBottleVintages, seedWineBottleSizes and seedWines from
         \* their INSERT number sub on
         Seed(tenantId, sub) ==
           LET Next == [NoLeg EXCEPT !.step = 3, !.sub = sub + 1]
               size == sub - Len(wineBottleVintages)
               item == sub - Len(wineBottleVintages) - Len(wineBottleSizes)
           IN IF sub <= Len(wineBottleVintages)
              THEN /\ Rows(entries, ops, groups, cases, wines, formats,
                           vintages \cup {Row(wineBottleVintages[sub], tenantId)},
                           nextId + 1)
                   /\ Await(tenantId, Next)
              ELSE IF size <= Len(wineBottleSizes)
              THEN /\ Rows(entries, ops, groups, cases, wines,
                           formats \cup {Row(wineBottleSizes[size], tenantId)},
                           vintages, nextId + 1)
                   /\ Await(tenantId, Next)
              ELSE IF item <= Len(wineItems)
              THEN /\ Rows(entries, ops, groups, cases,
                           wines \cup {[id |-> nextId, legacy_id |-> wineItems[item],
                                        placeholder |-> FALSE, tenant_id |-> tenantId]},
                           formats, vintages, nextId + 1)
                   /\ Await(tenantId, Next)
              ELSE /\ Rows(entries, ops, groups, cases, wines, formats, vintages, nextId)
                   /\ tenants' = tenants
                   /\ defaultTenantId' = tenantId
                   /\ leg' = NoLeg
                   /\ pc' = Idle(pc.prog)
                   /\ imported' = imported \cup {"wine"}
         \* clearExistingData from its DELETE number sub on: entries,
         \* operations, groups, cases, the tenant's wines, the wines WHERE
         \* tenant_id IS NULL OR tenant_id != $1, formats, vintages
         Clear(tenantId, sub) ==
           LET Table(i) == <<entries, ops, groups, cases, wines, wines, formats,
                             vintages>>[i]
               Del(i) == IF i = 6
                         THEN {w \in wines : /\ w.tenant_id # Nil
                                             /\ tenantId = Nil \/ w.tenant_id = tenantId}
                         ELSE Table(i) \ OfTenant(Table(i), tenantId)
               Write(i, n) == IF i = n THEN Del(i) ELSE Table(i)
               Stop(n) ==
                 IF n > 8 THEN Seed(tenantId, 1)
                 ELSE /\ Rows(Write(1, n), Write(2, n), Write(3, n), Write(4, n),
                              IF n = 6 THEN Del(6) ELSE Write(5, n),
                              Write(7, n), Write(8, n), nextId)
                      /\ Await(tenantId, [NoLeg EXCEPT !.step = 2, !.sub = n + 1])
           IN Stop(Min({i \in sub..8 : Del(i) # Table(i)} \cup {9}))
         Created(t) ==
           IF t.tenants # tenants
           THEN \* at the await of the INSERT INTO tenants
                /\ tenants' = t.tenants
                /\ defaultTenantId' = Nil
                /\ Rows(entries, ops, groups, cases, wines, formats, vintages, t.nid)
                /\ leg' = [NoLeg EXCEPT !.step = 1, !.tenantId = t.ret]
                /\ pc' = At(pc.prog, "wine")
                /\ imported' = imported
           ELSE Clear(t.ret, 1)
     IN IF pc.at = "idle"
        THEN Created(createDefaultTenant(tenants, WineTenantName, nextId))
        ELSE IF leg.step = 1 THEN Clear(leg.tenantId, 1)
        ELSE IF leg.step = 2 THEN Clear(defaultTenantId, leg.sub)
        ELSE Seed(defaultTenantId, leg.sub)
  /\ UNCHANGED <<fault, orchestrator, errors, legacyVars, users, mapVars, queue, cur,
                 gid, idx, arg, runs, outcome, handled, posted>>

\* ------------------------------------------------------------ user import
\* String.prototype.toLowerCase, over the letters of the emails of the files
LowerChar(c) ==
  CASE c = "A" -> "a" [] c = "B" -> "b" [] c = "C" -> "c" [] c = "M" -> "m"
    [] c = "X" -> "x" [] OTHER -> c

\* String.prototype.trim
RECURSIVE TrimStart(_)
TrimStart(t) == IF t # <<>> /\ Head(t) = " " THEN TrimStart(Tail(t)) ELSE t
RECURSIVE TrimEnd(_)
TrimEnd(t) == IF t # <<>> /\ t[Len(t)] = " " THEN TrimEnd(SubSeq(t, 1, Len(t) - 1)) ELSE t

\* formatEmail: null for no email and for blanks, else trimmed and in lower case
formatEmail(email) ==
  LET Lower(trimmed) == [i \in 1..Len(trimmed) |-> LowerChar(trimmed[i])]
  IN IF email = NoEmail THEN NoEmail ELSE Lower(TrimEnd(TrimStart(email)))

\* `temp-${account.legacy_account_id}@veritaswinestorage.com`
TempEmail(legacyAccountId) == <<"t", "e", "m", "p", "-">> \o Digits(legacyAccountId) \o <<"@", "v">>

\* SELECT id FROM users WHERE email = $1 AND tenant_id = $2
UsersByEmail(rows, email, tenantId) ==
  {u \in OfTenant(rows, tenantId) : email # NoEmail /\ u.email = email}

\* INSERT INTO users with bcrypt.hashSync(user.Password, 10), which throws
\* when the user has no Password; st is [users, nid, threw]
InsertUser(st, tenantId, email, user, status, legacyUserId) ==
  IF NoPassword(user) THEN [st EXCEPT !.threw = TRUE]
  ELSE [st EXCEPT !.users = @ \cup {[id |-> st.nid, tenant_id |-> tenantId,
                                      email |-> email, status |-> status,
                                      legacy_user_id |-> legacyUserId]},
                  !.nid = @ + 1]

\* the loop of seedUsersByAccounts from the account number Head(todo) of
\* accounts.json up to its next INSERT INTO users: a user for every account
\* that is not inactive and whose email no user of the tenant has; the user of
\* the account is the first active one of users.json, and reading a field of a
\* user that was not found raises a TypeError that leaves seed(). With
\* inserted, todo begins with the account of the INSERT
RECURSIVE seedUsersByAccounts(_, _, _)
seedUsersByAccounts(st, tenantId, todo) ==
  LET Rest(t) == seedUsersByAccounts(t, tenantId, Tail(todo))
      Result(t, inserted) ==
        [users |-> t.users, nid |-> t.nid, threw |-> t.threw, inserted |-> inserted,
         todo |-> todo]
      Inserted(t) == Result(t, ~t.threw)
      Threw == Result([st EXCEPT !.threw = TRUE], FALSE)
      Insert(account, user, email) ==
        IF UsersByEmail(st.users, email, tenantId) # {} THEN Rest(st)
        ELSE IF user = <<>> THEN Threw
        ELSE Inserted(InsertUser(st, tenantId, email, user[1],
                                 IF user[1].is_active = "false" THEN "blocked"
                                 ELSE "enabled",
                                 account.legacy_account_id))
      Seed(account, user) ==
        IF account.FirstName = "" /\ user = <<>> THEN Threw
        ELSE IF account.LastName = "" /\ user = <<>> THEN Threw
        ELSE IF account.Email # NoEmail THEN Insert(account, user, formatEmail(account.Email))
        ELSE IF user = <<>> THEN Threw
        ELSE IF user[1].Email # NoEmail THEN Insert(account, user, formatEmail(user[1].Email))
        ELSE Insert(account, user, formatEmail(TempEmail(account.legacy_account_id)))
      Account(account) ==
        IF account.is_active = "false" THEN Rest(st)
        ELSE Seed(account,
                  SelectSeq(legacyData.users,
                            LAMBDA u : /\ u.legacy_user_id = account.legacy_user_id
                                       /\ u.is_active = "true"))
  IN IF todo = <<>> THEN Result(st, FALSE)
     ELSE Account(legacyData.accounts[Head(todo)])

\* the loop of seedManagers from the user number Head(todo) of users.json up
\* to its next INSERT INTO users: a user for every Staff Manager that has an
\* email which no user of the tenant has; the error of bcrypt.hashSync leaves
\* seed(). With inserted, todo begins with the user of the INSERT
RECURSIVE seedManagers(_, _, _)
seedManagers(st, tenantId, todo) ==
  LET Rest(t) == seedManagers(t, tenantId, Tail(todo))
      Result(t, inserted) ==
        [users |-> t.users, nid |-> t.nid, threw |-> t.threw, inserted |-> inserted,
         todo |-> todo]
      Inserted(t) == Result(t, ~t.threw)
      Seed(user, email) ==
        IF UsersByEmail(st.users, email, tenantId) # {} THEN Rest(st)
        ELSE Inserted(InsertUser(st, tenantId, email, user,
                                 IF user.is_active = "false" THEN "blocked" ELSE "enabled",
                                 user.legacy_user_id))
      Manager(user) ==
        IF user.Role # "Staff Manager" \/ user.Email = NoEmail THEN Rest(st)
        ELSE Seed(user, formatEmail(user.Email))
  IN IF todo = <<>> THEN Result(st, FALSE)
     ELSE Manager(legacyData.users[Head(todo)])

\* import-user-data seed() up to its next write that changes the store, or
\* else to its end: createDefaultTenant of tenant-utils with its INSERT INTO
\* tenants, the DELETEs of clearExistingData when asked for, and
\* seedUsersByAccounts and seedManagers with one INSERT INTO users for a
\* user; a rejected DELETE, a TypeError or the error of bcrypt.hashSync leaves
\* seed() at that statement. Each write is its own await with no transaction
\* around them.
UserImportWith(clearExisting) ==
  /\ IF pc.at = "idle" THEN "user" \notin imported
     ELSE pc.at = "user" /\ leg.clearExisting = clearExisting
  /\ LET Rows(o, g, c, u, n) ==
           ops' = o /\ groups' = g /\ cases' = c /\ users' = u /\ nextId' = n
         \* at the await of a write, with the locals l
         Await(tenantId, l) ==
           /\ tenants' = tenants
           /\ defaultTenantId' = tenantId
           /\ leg' = [l EXCEPT !.clearExisting = clearExisting]
           /\ pc' = At(pc.prog, "user")
           /\ imported' = imported
           /\ errors' = errors
         \* seed() has returned, or has thrown
         Done(tenantId, threw) ==
           /\ Rows(ops, groups, cases, users, nextId)
           /\ tenants' = tenants
           /\ defaultTenantId' = tenantId
           /\ leg' = NoLeg
           /\ pc' = Idle(pc.prog)
           /\ imported' = imported \cup {"user"}
           /\ errors' = IF threw
                        THEN errors \cup {[script |-> "import-user-data", thrown |-> TRUE]}
                        ELSE errors
         Store == [users |-> users, nid |-> nextId, threw |-> FALSE]
         Managers(tenantId, r) ==
           IF r.inserted
           THEN /\ Rows(ops, groups, cases, r.users, r.nid)
                /\ Await(tenantId, [NoLeg EXCEPT !.step = 4, !.todo = r.todo])
           ELSE Done(tenantId, r.threw)
         Accounts(tenantId, r) ==
           IF r.inserted
           THEN /\ Rows(ops, groups, cases, r.users, r.nid)
                /\ Await(tenantId, [NoLeg EXCEPT !.step = 3, !.todo = r.todo])
           ELSE IF r.threw THEN Done(tenantId, TRUE)
           ELSE Managers(tenantId,
                         seedManagers(Store, tenantId,
                                      [i \in 1..Len(legacyData.users) |-> i]))
         Seed(tenantId) ==
           Accounts(tenantId,
                    seedUsersByAccounts(Store, tenantId,
                                        [i \in 1..Len(legacyData.accounts) |-> i]))
         \* clearExistingData from its DELETE number sub on
         Clear(tenantId, sub) ==
           LET Del(i) == clearExistingData(
                           <<"cases_operations", "operations_groups", "cases",
                             "users">>[i],
                           <<ops, groups, cases, users>>[i], tenantId, clearExisting)
               Next(i) == [NoLeg EXCEPT !.step = 2, !.sub = i + 1]
           IN IF sub <= 1 /\ Del(1) # ops
              THEN Rows(Del(1), groups, cases, users, nextId) /\ Await(tenantId, Next(1))
              ELSE IF sub <= 2 /\ Del(2) # groups
              THEN Rows(ops, Del(2), cases, users, nextId) /\ Await(tenantId, Next(2))
              ELSE IF sub <= 3 /\ Del(3) # cases
              THEN Rows(ops, groups, Del(3), users, nextId) /\ Await(tenantId, Next(3))
              ELSE IF sub <= 4 /\ clearExisting /\ DeleteFails("users")
              THEN Done(tenantId, TRUE)
              ELSE IF sub <= 4 /\ Del(4) # users
              THEN Rows(ops, groups, cases, Del(4), nextId) /\ Await(tenantId, Next(4))
              ELSE Seed(tenantId)
         Created(t) ==
           IF t.tenants # tenants
           THEN \* at the await of the INSERT INTO tenants
                /\ tenants' = t.tenants
                /\ defaultTenantId' = Nil
                /\ Rows(ops, groups, cases, users, t.nid)
                /\ leg' = [NoLeg EXCEPT !.step = 1, !.tenantId = t.ret,
                                        !.clearExisting = clearExisting]
                /\ pc' = At(pc.prog, "user")
                /\ imported' = imported
                /\ errors' = errors
           ELSE Clear(t.ret, 1)
     IN IF pc.at = "idle"
        THEN Created(createDefaultTenant(tenants, DefaultTenantName, nextId))
        ELSE IF leg.step = 1 THEN Clear(leg.tenantId, 1)
        ELSE IF leg.step = 2 THEN Clear(defaultTenantId, leg.sub)
        ELSE IF leg.step = 3
        THEN Accounts(defaultTenantId,
                      seedUsersByAccounts(Store, defaultTenantId, Tail(leg.todo)))
        ELSE Managers(defaultTenantId, seedManagers(Store, defaultTenantId, Tail(leg.todo)))
  /\ UNCHANGED <<fault, orchestrator, legacyVars, wines, formats, vintages, entries,
                 mapVars, queue, cur, gid, idx, arg, runs, outcome, handled, posted>>

\* import-user-data without --clear-existing
UserImport == UserImportWith(FALSE)

\* ------------------------------------------------------- ledger writer alone
Post(operationId, wineId, bottleFormatId, bottleVintageId, amount) ==
  /\ Len(posted) < MaxPosts
  /\ LET s == createCaseOperationInventoryEntry(Pack, operationId, wineId,
                 bottleFormatId, bottleVintageId, amount)
     IN entries' = s.entries /\ nextId' = s.nid /\ fault' = s.fault
  /\ posted' = Append(posted, [operation_id |-> operationId, wine_id |-> wineId,
                               bottle_format_id |-> bottleFormatId,
                               bottle_vintage_id |-> bottleVintageId,
                               amount |-> amount])
  /\ UNCHANGED <<orchestrator, errors, tenants, defaultTenantId,
                 legacyVars, refVars, wines, groups, ops, mapVars, pc, queue, cur, gid,
                 idx, arg, runs, outcome, handled, leg>>

\* ------------------------------------------------------------ initial states
\* the target store after the wine import and the user import: the tenant of
\* tenant-utils (1) with the customers of the legacy accounts 1 and 2, and the
\* tenant of the wine import (2) with wine 1, bottle format 1 and vintage 1
ReferenceUsers ==
  {[id |-> 10 + a, legacy_user_id |-> a, tenant_id |-> 1, status |-> "enabled",
    email |-> formatEmail(ReferenceData.accounts[a].Email)] : a \in 1..2}

InitReferenceStore ==
  /\ legacyData = ReferenceData
  /\ tenants = {[id |-> 1, name |-> DefaultTenantName], [id |-> 2, name |-> WineTenantName]}
  /\ imported = {"wine", "user"}
  /\ wines = {[id |-> 31, legacy_id |-> 1, placeholder |-> FALSE, tenant_id |-> 2]}
  /\ formats = {[id |-> 41, legacy_id |-> 1, tenant_id |-> 2]}
  /\ vintages = {[id |-> 51, legacy_id |-> 1, tenant_id |-> 2]}
  /\ nextId = 100

\* no activity has been reconciled on the store
NoOperations == groups = {} /\ ops = {} /\ entries = {}

InitReference == InitReferenceStore /\ NoOperations /\ users = ReferenceUsers

\* the cases 1 and 2 as the case import inserts them
ReferenceCaseRows ==
  {[id |-> 21, legacy_id |-> 1, tenant_id |-> 1],
   [id |-> 22, legacy_id |-> 2, tenant_id |-> 1]}

\* the same store with the cases 1 and 2 imported
InitStore == InitReference /\ cases = ReferenceCaseRows

\* no full migration is running
NoChild == [script |-> "none", state |-> "none", code |-> 0]
NoRun == [options |-> [extractData |-> FALSE, deleteData |-> FALSE, clearExisting |-> FALSE],
          status |-> "none", at |-> 0, child |-> NoChild, started |-> <<>>]

NoActivity == [ActivityID |-> Nil, AccountID |-> Nil, TransactionType |-> "X", Status |-> Nil]

\* the files of the case data and of the wine data before a script of the
\* run has written them: the reference cases and case details, and one wine
\* item, bottle size and vintage, each with the legacy id 1
InitFiles ==
  /\ legacyCases = ReferenceCases
  /\ caseDetailsFile = ReferenceCaseDetails
  /\ wineItems = <<1>>
  /\ wineBottleSizes = <<1>>
  /\ wineBottleVintages = <<1>>

InitScript ==
  /\ customerIdMap = EmptyMap
  /\ caseIdMap = EmptyMap
  /\ wineMapId = EmptyMap
  /\ bottleFormatMapId = EmptyMap
  /\ bottleVintageMapId = EmptyMap
  /\ queue = <<>>
  /\ cur = NoActivity
  /\ gid = Nil
  /\ idx = 1
  /\ arg = [activityId |-> Nil, clearExisting |-> FALSE, cleared |-> FALSE]
  /\ runs = 0
  /\ outcome = "none"
  /\ handled = {}
  /\ posted = <<>>
  /\ leg = NoLeg

\* a script run by hand: no full migration, no error yet
InitRun == InitScript /\ InitFiles /\ defaultTenantId = Nil /\ orchestrator = NoRun /\ errors = {}

\* the activity handed to the migrator: every kind with status 1, every status
\* as a deposit and as a transfer, and one of an account with no customer
MigActivities ==
  {[ActivityID |-> 1, AccountID |-> 1, TransactionType |-> t, Status |-> 1] :
      t \in TransactionTypes}
  \cup {[ActivityID |-> 1, AccountID |-> 1, TransactionType |-> "D", Status |-> st] :
      st \in Statuses}
  \cup {[ActivityID |-> 1, AccountID |-> 1, TransactionType |-> "T", Status |-> st] :
      st \in {3, 5}}
  \cup {[ActivityID |-> 1, AccountID |-> 3, TransactionType |-> "D", Status |-> 1]}

\* the inputs of a migrator call
MigInputs ==
  /\ InitRun
  /\ pc = Idle("mig")
  /\ activities \in {<<a>> : a \in MigActivities}
  /\ activityDetails \in LineFiles(LineItems, LaterLines, MaxLines)

MigRun == InitStore /\ MigInputs

\* the store accepts every write
InitMig == MigRun /\ fault = NoFault

\* the activity id on the command line is that of the one activity in the file
NextMig ==
  \/ \E c \in BOOLEAN : MigrateBegin(activities[1].ActivityID, c)
  \/ DepositOrWithdrawalDetail("mig")
  \/ TransferDetail("mig")

SpecMig == InitMig /\ [][NextMig]_vars

\* what an earlier migration of activity 1, a deposit with a line on case 1,
\* has left on the store: its group and its case operation, stamped with the
\* activity, and the placeholder of wine 1; the line was skipped, its bottle
\* format having no row of the tenant
MigratedGroups ==
  {[id |-> 60, tenant_id |-> 1, customer_id |-> 11, status |-> "processed", act |-> 1]}
MigratedOps ==
  {[id |-> 61, tenant_id |-> 1, case_id |-> 21, type |-> "deposit", status |-> "processed",
    logs |-> StringifyLog(1), group_id |-> 60, line |-> 1]}

\* the migrator called again for the activity, over files extracted anew
InitRemigrate ==
  /\ legacyData = ReferenceData
  /\ tenants = {[id |-> 1, name |-> DefaultTenantName], [id |-> 2, name |-> WineTenantName]}
  /\ imported = {"wine", "user"}
  /\ wines = {[id |-> 31, legacy_id |-> 1, placeholder |-> FALSE, tenant_id |-> 2],
              [id |-> 62, legacy_id |-> 1, placeholder |-> TRUE, tenant_id |-> 1]}
  /\ formats = {[id |-> 41, legacy_id |-> 1, tenant_id |-> 2]}
  /\ vintages = {[id |-> 51, legacy_id |-> 1, tenant_id |-> 2]}
  /\ nextId = 100
  /\ users = ReferenceUsers
  /\ cases = ReferenceCaseRows
  /\ groups = MigratedGroups /\ ops = MigratedOps /\ entries = {}
  /\ MigInputs
  /\ fault = NoFault

SpecRemigrate == InitRemigrate /\ [][NextMig]_vars

\* the activities of the bulk run: deposits and transfers of two customers,
\* every kind for customer 1, one activity that fails the status filter and
\* one of an account with no customer
BulkActivities ==
  {[ActivityID |-> Nil, AccountID |-> a, TransactionType |-> t, Status |-> 1] :
      a \in 1..2, t \in {"D", "T"}}
  \cup {[ActivityID |-> Nil, AccountID |-> 1, TransactionType |-> t, Status |-> 1] :
      t \in TransactionTypes}
  \cup {[ActivityID |-> Nil, AccountID |-> 1, TransactionType |-> "D", Status |-> 3],
        [ActivityID |-> Nil, AccountID |-> 3, TransactionType |-> "D", Status |-> 1]}

\* the activities after the first one in the file
FurtherActivities ==
  {[ActivityID |-> Nil, AccountID |-> 2, TransactionType |-> "D", Status |-> 1],
   [ActivityID |-> Nil, AccountID |-> 1, TransactionType |-> "T", Status |-> 1]}

\* the first line of the file of the bulk run, a line of activity 1
BulkLineItems ==
  {[BaseLine EXCEPT !.ActivityType = k] : k \in Kinds}
  \cup {[BaseLine EXCEPT !.CaseID = c] : c \in 1..3}
  \cup {[BaseLine EXCEPT !.WineItemID = 2], [BaseLine EXCEPT !.BottleSizeID = 2]}
  \cup {[BaseLine EXCEPT !.WineItemID = Nil, !.BottleSizeID = Nil, !.VintageID = Nil,
                         !.CaseDetailID = d] : d \in 2..3}
  \cup {[BaseLine EXCEPT !.Quantity = MaxQty]}

\* the later lines of the file of the bulk run: those of activity 1, and
\* three for each further activity, one of them on a case that was not imported
BulkLaterLines ==
  LaterLines
  \cup {[l EXCEPT !.ActivityID = a] :
          l \in {BaseLine, [BaseLine EXCEPT !.BottleSizeID = 2],
                 [BaseLine EXCEPT !.CaseID = 3]}, a \in 2..MaxActs}

\* the inputs of a bulk run
BulkRun ==
  /\ InitStore
  /\ InitRun
  /\ pc = Idle("bulk")
  /\ \E n \in 1..MaxActs : \E f \in [1..n -> BulkActivities] :
       /\ \A i \in 2..n : f[i] \in FurtherActivities
       /\ activities = [i \in 1..n |-> [f[i] EXCEPT !.ActivityID = i]]
  /\ activityDetails \in LineFiles(BulkLineItems, BulkLaterLines, MaxLines)

InitBulk == BulkRun /\ fault = NoFault

NextBulk ==
  \/ BulkBegin(1)
  \/ BulkCreateOperationGroup
  \/ DepositOrWithdrawalDetail("bulk")
  \/ TransferDetail("bulk")
  \/ BulkEnd

SpecBulk == InitBulk /\ [][NextBulk]_vars

LedgerOps == 1..2
LedgerWines == 1..2
LedgerFormats == 1..2
LedgerVintages == 1..1

InitLedger ==
  /\ InitStore
  /\ InitScript
  /\ InitFiles
  /\ orchestrator = NoRun /\ errors = {}
  \* seed() has set the tenant before the first ledger write
  /\ defaultTenantId = (CHOOSE t \in tenants : t.name = DefaultTenantName).id
  /\ pc = Idle("ledger")
  /\ fault = NoFault
  /\ activities = <<>>
  /\ activityDetails = <<>>

NextLedger ==
  \E o \in LedgerOps, w \in LedgerWines, f \in LedgerFormats, v \in LedgerVintages,
     a \in 1..MaxQty : Post(o, w, f, v, a)

SpecLedger == InitLedger /\ [][NextLedger]_vars

\* both scripts, each on its own store
Init == InitMig \/ InitBulk
Next == NextMig \/ NextBulk
Spec == Init /\ [][Next]_vars

\* the wine import, the user import and the case import on a fresh store,
\* in any order, over one deposit or transfer of account 1
InitFresh ==
  /\ InitRun
  /\ legacyData \in UserFiles
  /\ fault = NoFault
  /\ tenants = {} /\ imported = {}
  /\ users = {} /\ cases = {} /\ wines = {} /\ formats = {} /\ vintages = {}
  /\ groups = {} /\ ops = {} /\ entries = {}
  /\ nextId = 100
  /\ pc = Idle("bulk")
  /\ \E t \in {"D", "T"} :
       activities = <<[ActivityID |-> 1, AccountID |-> 1, TransactionType |-> t,
                       Status |-> 1]>>
  /\ activityDetails \in LineFiles(BulkLineItems, LaterLines, MaxLines)

NextImports == WineImport \/ UserImport \/ NextBulk
SpecImports == InitFresh /\ [][NextImports]_vars

\* the case import run again and again on a store that holds no case yet
InitRerun ==
  /\ InitReference
  /\ cases = {}
  /\ InitRun
  /\ fault = NoFault
  /\ pc = Idle("bulk")
  /\ \E n \in 1..MaxActs : \E f \in [1..n -> FurtherActivities] :
       activities = [i \in 1..n |-> [f[i] EXCEPT !.ActivityID = i]]
  /\ activityDetails \in LineFiles(BulkLineItems, BulkLaterLines, MaxLines)

NextRerun ==
  \/ BulkBegin(MaxRuns)
  \/ BulkCreateOperationGroup
  \/ DepositOrWithdrawalDetail("bulk")
  \/ TransferDetail("bulk")
  \/ BulkEnd

SpecRerun == InitRerun /\ [][NextRerun]_vars

\* the case import on a store that holds no case yet and whose customers may
\* have been blocked since the user import
UserStatuses == {"enabled", "blocked"}
InitBlocked ==
  /\ InitReferenceStore
  /\ NoOperations
  /\ \E f \in [ReferenceUsers -> UserStatuses] :
       users = {[u EXCEPT !.status = f[u]] : u \in ReferenceUsers}
  /\ cases = {}
  /\ InitRun
  /\ fault = NoFault
  /\ pc = Idle("bulk")
  /\ \E t \in {"D", "T"} :
       activities = <<[ActivityID |-> 1, AccountID |-> 1, TransactionType |-> t,
                       Status |-> 1]>>
  /\ activityDetails \in LineFiles(BulkLineItems, LaterLines, MaxLines)

SpecBlocked == InitBlocked /\ [][NextBulk]_vars

\* both scripts on a store that rejects the writes to one table, from the
\* first one or after it has accepted one
Faults == {[table |-> t, after |-> n] : t \in {"group", "operation", "entry"}, n \in 0..1}
InitFault == (MigRun \/ BulkRun) /\ fault \in Faults
SpecFault == InitFault /\ [][Next]_vars

\* ------------------------------------------------------------ full migration
\* what a script leaves alone when it only starts, ends or is waited for
runVars == <<leg, fault, refVars, tenants, defaultTenantId, wines, groups, ops, entries, mapVars, nextId, pc, queue, cur, gid, idx, arg, runs, outcome, handled, posted>>
scriptVars == <<errors, legacyVars, runVars>>

\* parseArguments: deleteData is true unless --no-delete-data is given,
\* clearExisting is true whatever the arguments are
parseArguments(extractData, noDeleteData) ==
  [extractData |-> extractData, deleteData |-> ~noDeleteData, clearExisting |-> TRUE]

\* run(): the scripts it executes, in its order
Scripts(options) ==
  <<"add-legacy-id-columns">>
  \o (IF options.extractData
      THEN <<"extract-wine-data", "extract-user-data", "extract-case-data">> ELSE <<>>)
  \o (IF options.deleteData THEN <<"clean-database">> ELSE <<>>)
  \o <<"import-wine-data", "import-user-data", "import-case-data">>

ChildRuns(script) ==
  orchestrator.child.script = script /\ orchestrator.child.state = "running"

\* the child process ends with the exit code
Exit(code) == [orchestrator EXCEPT !.child.state = "exited", !.child.code = code]

\* executeScript: spawn of the next script of run()
executeScript ==
  /\ orchestrator.status = "running"
  /\ orchestrator.child.state = "none"
  /\ orchestrator.at <= Len(Scripts(orchestrator.options))
  /\ orchestrator' =
       [orchestrator EXCEPT
          !.child = [script |-> Scripts(orchestrator.options)[orchestrator.at],
                     state |-> "running", code |-> 0],
          !.started = Append(@, Scripts(orchestrator.options)[orchestrator.at])]
  /\ UNCHANGED scriptVars

\* child.on('close'): code 0 resolves and run() goes on to its next script,
\* or to its end; any other code rejects, and run() rethrows from its catch
close ==
  /\ orchestrator.child.state = "exited"
  /\ orchestrator' =
       IF orchestrator.child.code = 0
       THEN [orchestrator EXCEPT
               !.child = NoChild,
               !.at = @ + 1,
               !.status = IF orchestrator.at = Len(Scripts(orchestrator.options))
                          THEN "completed" ELSE "running"]
       ELSE [orchestrator EXCEPT !.child = NoChild, !.status = "failed"]
  /\ UNCHANGED scriptVars

\* add-legacy-id-columns (bootstrap): it adds the legacy_id column and its
\* index to the tables that lack them and writes no row; a rejected statement
\* ends the process with code 1
addLegacyIdColumns ==
  /\ ChildRuns("add-legacy-id-columns")
  /\ \/ /\ orchestrator' = Exit(0)
        /\ UNCHANGED errors
     \/ /\ orchestrator' = Exit(1)
        /\ errors' = errors \cup {[script |-> "add-legacy-id-columns", thrown |-> TRUE]}
  /\ UNCHANGED <<legacyVars, runVars>>

\* ------------------------------------------------- legacy database extraction
\* the legacy SQL Server database, each table in the order in which it
\* returns its rows when no order is asked for: the users and accounts of the
\* reference files, a case for each account, the case details of the
\* reference file, one wine item, one bottle size, and the vintages 2 and 1;
\* account 3 is not active
ReferenceDatabase ==
  [Users |->
     << [UserID |-> 1, Role |-> "Customer", Email |-> <<"a", "@", "x">>, IsActive |-> 1],
        [UserID |-> 2, Role |-> "Customer", Email |-> NoEmail, IsActive |-> 1] >>,
   Accounts |->
     << [AccountID |-> 1, UserID |-> 1, FirstName |-> "Ann", LastName |-> "A",
         Email |-> <<"a", "@", "x">>, IsActive |-> 1],
        [AccountID |-> 2, UserID |-> 2, FirstName |-> "Bob", LastName |-> "B",
         Email |-> <<" ", "B", "@", "x">>, IsActive |-> 1],
        [AccountID |-> 3, UserID |-> 3, FirstName |-> "Cy", LastName |-> "C",
         Email |-> <<"c", "@", "x">>, IsActive |-> 0] >>,
   Cases |-> [i \in 1..3 |-> [CaseID |-> i, AccountID |-> i]],
   CaseDetails |->
     [i \in DOMAIN ReferenceCaseDetails |->
        [CaseDetailID |-> ReferenceCaseDetails[i].legacy_case_detail_id,
         CaseID |-> ReferenceCaseDetails[i].legacy_case_id,
         WineItemID |-> ReferenceCaseDetails[i].legacy_wine_item_id,
         BottleSizeID |-> ReferenceCaseDetails[i].legacy_bottle_size_id,
         VintageID |-> ReferenceCaseDetails[i].legacy_vintage_id,
         WineQuantity |-> ReferenceCaseDetails[i].WineQuantity]],
   Activities |-> <<>>,
   ActivityDetails |-> <<>>,
   WineItems |-> <<1>>, BottleSizes |-> <<1>>, Vintages |-> <<2, 1>>]

\* the database at the user extraction: the reference one; with a staff
\* manager who is not active; with the user of account 2 not active; with
\* account 2 under the email of account 1 and without a first name
UserDatabases ==
  {ReferenceDatabase,
   [ReferenceDatabase EXCEPT !.Users = Append(@, [UserID |-> 5, Role |-> "Staff Manager",
                                                  Email |-> <<"M", "@", "x", " ">>,
                                                  IsActive |-> 0])],
   [ReferenceDatabase EXCEPT !.Users[2].IsActive = 0],
   [ReferenceDatabase EXCEPT !.Accounts[2].Email = <<"A", "@", "x">>,
                             !.Accounts[2].FirstName = ""]}

\* the rows of the ActivityDetails table: no line item, or one
ExtractedLines == {<<>>} \cup {<<l>> : l \in BulkLineItems}

\* the database at the case extraction: no activity, or one deposit or
\* transfer of account 1, or one deposit of account 3
CaseDatabases ==
  {[ReferenceDatabase EXCEPT !.Activities = a, !.ActivityDetails = d] :
     a \in {<<>>}
           \cup {<<[ActivityID |-> 1, AccountID |-> 1, TransactionType |-> t,
                    Status |-> 1]>> : t \in {"D", "T"}}
           \cup {<<[ActivityID |-> 1, AccountID |-> 3, TransactionType |-> "D",
                    Status |-> 1]>>},
     d \in ExtractedLines}

\* EXTRACTION_QUERIES of the wine extraction: the legacy_id of the rows,
\* ORDER BY the key
WineQueries(db) ==
  [wineItems |-> SortSeq(db.WineItems, LAMBDA a, b : a < b),
   wineBottleSizes |-> SortSeq(db.BottleSizes, LAMBDA a, b : a < b),
   wineBottleVintages |-> SortSeq(db.Vintages, LAMBDA a, b : a < b)]

\* EXTRACTION_QUERIES of the user extraction: every user and every account,
\* ORDER BY the key, IsActive as the text 'true' or 'false'; the Password
\* column is not selected, so that a user of users.json has none
UserQueries(db) ==
  LET is_active(row) == IF row.IsActive = 1 THEN "true" ELSE "false"
      us == SortSeq(db.Users, LAMBDA a, b : a.UserID < b.UserID)
      as == SortSeq(db.Accounts, LAMBDA a, b : a.AccountID < b.AccountID)
  IN [users |->
        [i \in DOMAIN us |->
           [legacy_user_id |-> us[i].UserID, Role |-> us[i].Role, Email |-> us[i].Email,
            is_active |-> is_active(us[i])]],
      accounts |->
        [i \in DOMAIN as |->
           [legacy_account_id |-> as[i].AccountID, legacy_user_id |-> as[i].UserID,
            FirstName |-> as[i].FirstName, LastName |-> as[i].LastName,
            Email |-> as[i].Email, is_active |-> is_active(as[i])]]]

\* EXTRACTION_QUERIES of the case extraction: the cases, the case details and
\* the activities of the active accounts (INNER JOIN Accounts ... WHERE
\* IsActive = 1), cases and case details ORDER BY their key, and every row of
\* ActivityDetails
CaseQueries(db) ==
  LET Active(accountId) ==
        \E i \in DOMAIN db.Accounts :
           db.Accounts[i].AccountID = accountId /\ db.Accounts[i].IsActive = 1
      OfActiveAccount(row) == Active(row.AccountID)
      OfActiveCase(row) ==
        \E i \in DOMAIN db.Cases :
           db.Cases[i].CaseID = row.CaseID /\ Active(db.Cases[i].AccountID)
      cs == SelectSeq(SortSeq(db.Cases, LAMBDA a, b : a.CaseID < b.CaseID),
                      OfActiveAccount)
      cds == SelectSeq(SortSeq(db.CaseDetails,
                               LAMBDA a, b : a.CaseDetailID < b.CaseDetailID),
                       OfActiveCase)
  IN [cases |->
        [i \in DOMAIN cs |->
           [legacy_case_id |-> cs[i].CaseID, legacy_account_id |-> cs[i].AccountID]],
      caseDetails |->
        [i \in DOMAIN cds |->
           [legacy_case_detail_id |-> cds[i].CaseDetailID,
            legacy_case_id |-> cds[i].CaseID,
            legacy_wine_item_id |-> cds[i].WineItemID,
            legacy_bottle_size_id |-> cds[i].BottleSizeID,
            legacy_vintage_id |-> cds[i].VintageID,
            WineQuantity |-> cds[i].WineQuantity]],
      activities |-> SelectSeq(db.Activities, OfActiveAccount),
      activityDetails |-> db.ActivityDetails]

\* extractAllData: the answer of each query, and [] for a query that failed
extractAllData(answers, failed) ==
  [queryName \in DOMAIN answers |->
     IF queryName \in failed THEN <<>> ELSE answers[queryName]]

\* the errors after an extraction: the error of connect or disconnect leaves
\* main through its catch, the error of a query is caught in extractAllData
ExtractErrors(script, connected, failed) ==
  IF ~connected THEN errors \cup {[script |-> script, thrown |-> TRUE]}
  ELSE IF failed # {} THEN errors \cup {[script |-> script, thrown |-> FALSE]}
  ELSE errors

\* extract-wine-data (main): connect, extractAllData, disconnect, and
\* DataSaver.saveAllData, which writes one file for each query; an error of
\* connect or disconnect ends the process with code 1 before a file is written
ExtractWineData ==
  /\ ChildRuns("extract-wine-data")
  /\ \/ /\ orchestrator' = Exit(1)
        /\ errors' = ExtractErrors("extract-wine-data", FALSE, {})
        /\ UNCHANGED <<legacyVars, runVars>>
     \/ \E failed \in {{}} \cup {{q} : q \in DOMAIN WineQueries(ReferenceDatabase)} :
          LET Save(extractedData) ==
                /\ wineItems' = extractedData.wineItems
                /\ wineBottleSizes' = extractedData.wineBottleSizes
                /\ wineBottleVintages' = extractedData.wineBottleVintages
          IN /\ Save(extractAllData(WineQueries(ReferenceDatabase), failed))
             /\ orchestrator' = Exit(0)
             /\ errors' = ExtractErrors("extract-wine-data", TRUE, failed)
             /\ UNCHANGED <<activities, activityDetails, legacyCases, caseDetailsFile,
                            legacyData, runVars>>

\* extract-user-data (main): the same steps; saveAllData writes users.json
\* and accounts.json
ExtractUserData ==
  /\ ChildRuns("extract-user-data")
  /\ \/ /\ orchestrator' = Exit(1)
        /\ errors' = ExtractErrors("extract-user-data", FALSE, {})
        /\ UNCHANGED <<legacyVars, runVars>>
     \/ \E db \in UserDatabases :
          \E failed \in {{}} \cup {{q} : q \in DOMAIN UserQueries(db)} :
            LET Save(extractedData) ==
                  legacyData' = [accounts |-> extractedData.accounts,
                                 users |-> extractedData.users]
            IN /\ Save(extractAllData(UserQueries(db), failed))
               /\ orchestrator' = Exit(0)
               /\ errors' = ExtractErrors("extract-user-data", TRUE, failed)
               /\ UNCHANGED <<activities, activityDetails, legacyCases, caseDetailsFile,
                              wineItems, wineBottleSizes, wineBottleVintages, runVars>>

\* extract-case-data (main): the same steps; saveAllData writes
\* cases-cases.json, cases-caseDetails.json, cases-activities.json and
\* cases-activityDetails.json
ExtractCaseData ==
  /\ ChildRuns("extract-case-data")
  /\ \/ /\ orchestrator' = Exit(1)
        /\ errors' = ExtractErrors("extract-case-data", FALSE, {})
        /\ UNCHANGED <<legacyVars, runVars>>
     \/ \E db \in CaseDatabases :
          \E failed \in {{}} \cup {{q} : q \in DOMAIN CaseQueries(db)} :
            LET Save(extractedData) ==
                  /\ legacyCases' = extractedData.cases
                  /\ caseDetailsFile' = extractedData.caseDetails
                  /\ activities' = extractedData.activities
                  /\ activityDetails' = extractedData.activityDetails
            IN /\ Save(extractAllData(CaseQueries(db), failed))
               /\ orchestrator' = Exit(0)
               /\ errors' = ExtractErrors("extract-case-data", TRUE, failed)
               /\ UNCHANGED <<legacyData, wineItems, wineBottleSizes, wineBottleVintages,
                              runVars>>

\* deleteFromTable: the DELETE of the tenant's rows, its error caught and logged
deleteFromTable(tableName, rows, tenantId) ==
  IF DeleteFails(tableName) THEN rows ELSE rows \ OfTenant(rows, tenantId)

\* clean-database --confirm up to its next write that changes the store, or
\* else to the end of bootstrap: createDefaultTenant of tenant-utils with its
\* INSERT INTO tenants, then performDeletion with the DELETE of each table in
\* turn, a rejected one caught and logged. Each write is its own await with
\* no transaction around them.
CleanDatabase ==
  /\ ChildRuns("clean-database")
  /\ pc.at \in {"idle", "clean"}
  /\ LET Rows(e, o, g, c, u, w, f, v) ==
           /\ entries' = e /\ ops' = o /\ groups' = g /\ cases' = c
           /\ users' = u /\ wines' = w /\ formats' = f /\ vintages' = v
         \* performDeletion from its DELETE number sub on
         performDeletion(tenantId, sub) ==
           LET Name(i) == <<"wine_inventory_entries", "cases_operations",
                            "operations_groups", "cases", "users", "wines",
                            "wine_bottle_formats", "wine_bottle_vintages">>[i]
               Table(i) == <<entries, ops, groups, cases, users, wines, formats,
                             vintages>>[i]
               Del(i) == deleteFromTable(Name(i), Table(i), tenantId)
               Write(i, n) == IF i = n THEN Del(i) ELSE Table(i)
               Stop(n) ==
                 /\ Rows(Write(1, n), Write(2, n), Write(3, n), Write(4, n),
                         Write(5, n), Write(6, n), Write(7, n), Write(8, n))
                 /\ tenants' = tenants
                 /\ nextId' = nextId
                 /\ defaultTenantId' = tenantId
                 /\ errors' = IF \E i \in sub..8 : i <= n /\ DeleteFails(Name(i))
                              THEN errors \cup {[script |-> "clean-database",
                                                 thrown |-> FALSE]}
                              ELSE errors
                 /\ IF n > 8
                    THEN /\ leg' = NoLeg
                         /\ pc' = Idle(pc.prog)
                         /\ orchestrator' = Exit(0)
                    ELSE /\ leg' = [NoLeg EXCEPT !.step = 2, !.sub = n + 1]
                         /\ pc' = At(pc.prog, "clean")
                         /\ orchestrator' = orchestrator
           IN Stop(Min({i \in sub..8 : Del(i) # Table(i)} \cup {9}))
         Created(t) ==
           IF t.tenants # tenants
           THEN \* at the await of the INSERT INTO tenants
                /\ tenants' = t.tenants
                /\ nextId' = t.nid
                /\ defaultTenantId' = Nil
                /\ Rows(entries, ops, groups, cases, users, wines, formats, vintages)
                /\ errors' = errors
                /\ leg' = [NoLeg EXCEPT !.step = 1, !.tenantId = t.ret]
                /\ pc' = At(pc.prog, "clean")
                /\ orchestrator' = orchestrator
           ELSE performDeletion(t.ret, 1)
     IN IF pc.at = "idle"
        THEN Created(createDefaultTenant(tenants, DefaultTenantName, nextId))
        ELSE IF leg.step = 1 THEN performDeletion(leg.tenantId, 1)
        ELSE performDeletion(defaultTenantId, leg.sub)
  /\ UNCHANGED <<fault, legacyVars, imported, mapVars, queue, cur, gid, idx, arg, runs,
                 outcome, handled, posted>>

ImportScripts == {"import-wine-data", "import-user-data", "import-case-data"}

\* seed() of the import script has returned or thrown
Exited(script) ==
  CASE script = "import-wine-data" -> "wine" \in imported
    [] script = "import-user-data" -> "user" \in imported
    [] script = "import-case-data" -> runs > 0 /\ pc = Idle("bulk")

\* bootstrap of an import script: process.exit(1) when seed() threw
ExitCode(script) ==
  IF \/ \E e \in errors : e.script = script /\ e.thrown
     \/ script = "import-case-data" /\ outcome = "aborted"
  THEN 1 ELSE 0

\* the end of bootstrap of an import script
ImportExit ==
  /\ \E script \in ImportScripts :
       /\ ChildRuns(script)
       /\ Exited(script)
       /\ orchestrator' = Exit(ExitCode(script))
  /\ UNCHANGED scriptVars

\* child.on('error'): the process could not be spawned; the promise rejects
\* before the script has run a statement, and run() rethrows from its catch
error ==
  /\ orchestrator.child.state = "running"
  /\ pc.at = "idle"
  /\ orchestrator.child.script \in ImportScripts => ~Exited(orchestrator.child.script)
  /\ orchestrator.child.script = "import-case-data" => runs = 0
  /\ orchestrator' = [orchestrator EXCEPT !.child = NoChild, !.status = "failed"]
  /\ UNCHANGED scriptVars

\* the target store before a full migration: rows of the tenant of
\* tenant-utils (1), of the tenant of the wine import (2) and of another
\* tenant (3), and a wine of no tenant; the wine of legacy id 1 of tenant 1 is
\* a placeholder of an earlier case import, and of the tenants 1 and 2 only
\* the bottle format and vintage of tenant 2, which the wine import writes,
\* have a legacy id
ExistingTenants ==
  {[id |-> 1, name |-> DefaultTenantName], [id |-> 2, name |-> WineTenantName],
   [id |-> 3, name |-> "Other"]}
ExistingUsers ==
  {[id |-> 11, legacy_user_id |-> 1, tenant_id |-> 1, status |-> "enabled",
    email |-> <<"a", "@", "x">>],
   [id |-> 13, legacy_user_id |-> 9, tenant_id |-> 3, status |-> "enabled",
    email |-> <<"a", "@", "x">>]}
ExistingCases ==
  {[id |-> 21, legacy_id |-> 1, tenant_id |-> 1], [id |-> 23, legacy_id |-> 9, tenant_id |-> 3]}
ExistingWines ==
  {[id |-> 30 + t, legacy_id |-> IF t \in 1..2 THEN 1 ELSE 9, placeholder |-> (t = 1),
    tenant_id |-> IF t = 4 THEN Nil ELSE t] : t \in 1..4}
ExistingFormats ==
  {[id |-> 40 + t, legacy_id |-> IF t = 1 THEN Nil ELSE 1, tenant_id |-> t] : t \in 1..3}
ExistingVintages ==
  {[id |-> 50 + t, legacy_id |-> IF t = 1 THEN Nil ELSE 1, tenant_id |-> t] : t \in 1..3}
ExistingGroups ==
  {[id |-> 60 + t, tenant_id |-> t, customer_id |-> 10 + t, status |-> "processed",
    act |-> 9] : t \in {1, 3}}
ExistingOps ==
  {[id |-> 70 + t, tenant_id |-> t, case_id |-> 20 + t, type |-> "deposit",
    status |-> "processed", logs |-> EmptyLog, group_id |-> 60 + t, line |-> 1] :
      t \in {1, 3}}
ExistingEntries ==
  {[id |-> 80 + t, tenant_id |-> t, operation_id |-> 70 + t, wine_id |-> 30 + t,
    bottle_format_id |-> 40 + t, bottle_vintage_id |-> 50 + t, amount |-> 1,
    case_id |-> Nil] : t \in {1, 3}}

\* the command lines of full-migration, on the existing store, over one
\* deposit or transfer of account 1; the store accepts every statement, or
\* rejects the DELETEs on one table; with --extract-data the line items on
\* disk are those an earlier extraction has left
InitFull ==
  /\ InitScript
  /\ InitFiles
  /\ legacyData \in UserFiles
  /\ defaultTenantId = Nil
  /\ errors = {}
  /\ fault \in {NoFault, [table |-> "delete", after |-> 0]}
  /\ \E extractData, noDeleteData \in BOOLEAN :
       orchestrator = [options |-> parseArguments(extractData, noDeleteData),
                       status |-> "running", at |-> 1, child |-> NoChild,
                       started |-> <<>>]
  /\ tenants = ExistingTenants /\ imported = {}
  /\ users = ExistingUsers /\ cases = ExistingCases /\ wines = ExistingWines
  /\ formats = ExistingFormats /\ vintages = ExistingVintages
  /\ groups = ExistingGroups /\ ops = ExistingOps /\ entries = ExistingEntries
  /\ nextId = 100
  /\ pc = Idle("bulk")
  /\ \E t \in {"D", "T"} :
       activities = <<[ActivityID |-> 1, AccountID |-> 1, TransactionType |-> t,
                       Status |-> 1]>>
  /\ activityDetails \in IF orchestrator.options.extractData THEN ExtractedLines
                         ELSE LineFiles(BulkLineItems, LaterLines, MaxLines)

NextFull ==
  \/ executeScript
  \/ addLegacyIdColumns
  \/ ExtractWineData
  \/ ExtractUserData
  \/ ExtractCaseData
  \/ CleanDatabase
  \/ ChildRuns("import-wine-data") /\ WineImport
  \/ ChildRuns("import-user-data") /\ UserImportWith(orchestrator.options.clearExisting)
  \/ ChildRuns("import-case-data") /\ BulkBeginWith(1, orchestrator.options.clearExisting)
  \/ ChildRuns("import-case-data") /\ BulkCreateOperationGroup
  \/ ChildRuns("import-case-data") /\ DepositOrWithdrawalDetail("bulk")
  \/ ChildRuns("import-case-data") /\ TransferDetail("bulk")
  \/ ChildRuns("import-case-data") /\ BulkEnd
  \/ ImportExit
  \/ close
  \/ error

SpecFull == InitFull /\ [][NextFull]_vars

\* ===================================================================== claims
GroupOps(g) == {o \in ops : o.group_id = g}
\* the ledger entries of operations; the others are the on-hand snapshots
Ledger == {e \in entries : e.operation_id # Nil}
GroupEntries(g, type) ==
  {e \in entries : \E o \in ops : o.id = e.operation_id /\ o.group_id = g /\ o.type = type}
ActivityOf(g) == activities[CHOOSE i \in 1..Len(activities) : activities[i].ActivityID = g.act]
\* the lines a handler of group g was called for, and those it posted
HandledLines(g) == {h.line : h \in {x \in handled : x.gid = g}}
PostedLines(g) == {h.line : h \in {x \in handled : x.gid = g /\ x.result = "posted"}}
\* all non-Supply lines of an activity in the file
LinesOf(a) == {i \in 1..Len(activityDetails) :
                 activityDetails[i].ActivityID = a /\ activityDetails[i].ActivityType # "Supply"}
\* reconciliation of group g is not going on
Ended(g) == ~(pc.at \in {"dw", "t"} /\ gid = g)

RECURSIVE SumQuantity(_)
SumQuantity(lines) ==
  IF lines = {} THEN 0
  ELSE LET i == CHOOSE x \in lines : TRUE
       IN activityDetails[i].Quantity + SumQuantity(lines \ {i})

\* what the tables say about a line, without running the resolver
HasCase(legacyCaseId) == \E c \in cases : c.legacy_id = legacyCaseId
TargetCase(legacyCaseId) == (CHOOSE c \in cases : c.legacy_id = legacyCaseId).id
DetailOf(l) == CHOOSE d \in caseDetails : d.legacy_case_detail_id = l.CaseDetailID
HasDetail(l) == \E d \in caseDetails : d.legacy_case_detail_id = l.CaseDetailID

TransferGroups == {g \in groups : ActivityOf(g).TransactionType = "T"}
SimpleGroups == {g \in groups : ActivityOf(g).TransactionType \in {"D", "W"}}

\* C1: once a transfer activity has been reconciled, the ledger amounts under
\* its withdrawal operations and under its deposit operations both equal the
\* sum of Quantity over the activity's line items.
C1_AllLines ==
  \A g \in TransferGroups : Ended(g.id) =>
    /\ SumAmount(GroupEntries(g.id, "withdrawal")) = SumAmount(GroupEntries(g.id, "deposit"))
    /\ SumAmount(GroupEntries(g.id, "deposit")) = SumQuantity(LinesOf(g.act))

\* the lines of group g reached so far: those a handler was called for and has
\* returned from, and the one whose handler has made a write and goes on
ReachedLines(g) ==
  HandledLines(g) \cup
    (IF pc.at = "dw" /\ gid = g /\ leg.step # 0
     THEN {getInventoryActivityDetails(activityDetails, cur.ActivityID)[idx]}
     ELSE {})

SameKey(a, b) ==
  /\ a.operation_id = b.operation_id /\ a.wine_id = b.wine_id
  /\ a.bottle_format_id = b.bottle_format_id
  /\ a.bottle_vintage_id = b.bottle_vintage_id
RECURSIVE PostedSum(_, _)
PostedSum(k, n) ==
  IF n = 0 THEN 0
  ELSE (IF SameKey(posted[n], k) THEN posted[n].amount ELSE 0) + PostedSum(k, n - 1)
C3_Accumulation ==
  /\ \A e1, e2 \in entries : SameKey(e1, e2) => e1 = e2
  /\ \A n \in 1..Len(posted) :
       \E e \in entries : SameKey(e, posted[n]) /\ e.amount = PostedSum(posted[n], Len(posted))
  /\ \A e \in entries : \E n \in 1..Len(posted) : SameKey(e, posted[n])

\* amounts a and b were posted to one key and the ledger holds one entry of a+b
C3_Witness ==
  /\ Len(posted) = 2
  /\ SameKey(posted[1], posted[2])
  /\ \E e \in entries : entries = {e} /\ e.amount = posted[1].amount + posted[2].amount

\* the migrator is at a step of migrate() before the reconciliation of the lines
MigrateStep == pc.prog = "mig" /\ pc.at \in {"idle", "migrate"}

\* C4: a migrate call without --clear-existing for an activity that already has
\* a group with a CaseOperation changes no OperationGroup, CaseOperation or
\* ledger row.
C4_RerunNoOp ==
  [][(/\ MigrateStep
      /\ arg'.clearExisting = FALSE
      /\ \E g \in groups : g.act = arg'.activityId /\ GroupOps(g.id) # {})
     => (groups' = groups /\ ops' = ops /\ entries' = entries)]_vars

\* C5: no exception leaves a line handler.
C5_NeverFatal == \A h \in handled : h.result # "threw"

\* C6: in a bulk run no two groups belong to one activity, a group's customer
\* is the one resolved from its activity's account, every CaseOperation lies in
\* the group of the activity of the line it was created for, and when the run
\* completes the activities with a group are those that pass the filter and
\* whose account has a customer.
C6_OneGroupPerActivity ==
  /\ \A g1, g2 \in groups : g1.act = g2.act => g1 = g2
  /\ \A g \in groups :
       \E u \in users : u.legacy_user_id = ActivityOf(g).AccountID /\ u.id = g.customer_id
  /\ \A o \in ops : \E g \in groups :
       g.id = o.group_id /\ g.act = activityDetails[o.line].ActivityID
  /\ (pc.at = "idle" /\ outcome = "completed") =>
       {g.act : g \in groups} =
         {activities[i].ActivityID : i \in {j \in 1..Len(activities) :
             /\ activities[j].Status = 1
             /\ \E u \in users : u.legacy_user_id = activities[j].AccountID}}

\* a completed bulk run with the groups of two activities of two customers,
\* a line of each of which was handled
C6_Witness ==
  /\ pc = Idle("bulk") /\ outcome = "completed"
  /\ \E g1, g2 \in groups :
       /\ g1.act # g2.act /\ g1.customer_id # g2.customer_id
       /\ HandledLines(g1.id) # {} /\ HandledLines(g2.id) # {}

\* C7: no line handler is called for a Supply line, no CaseOperation is created
\* for one, every ledger entry hangs off a CaseOperation, and the ledger total
\* of a group is the Quantity of the non-Supply lines posted (twice for a
\* transfer, once per leg).
C7_NoSupply ==
  /\ \A h \in handled : activityDetails[h.line].ActivityType # "Supply"
  /\ \A o \in ops : activityDetails[o.line].ActivityType # "Supply"
  /\ \A e \in Ledger : \E o \in ops : o.id = e.operation_id
  /\ \A g \in groups :
       SumAmount({e \in entries : \E o \in GroupOps(g.id) : o.id = e.operation_id}) =
         (IF ActivityOf(g).TransactionType = "T" THEN 2 ELSE 1) * SumQuantity(PostedLines(g.id))

\* an activity with a Supply line and a line that was handled and got its
\* case operation has been reconciled
C7_Witness ==
  \E g \in groups :
    /\ Ended(g.id)
    /\ HandledLines(g.id) # {}
    /\ GroupOps(g.id) # {}
    /\ \E i \in 1..Len(activityDetails) :
         activityDetails[i].ActivityID = g.act /\ activityDetails[i].ActivityType = "Supply"

\* C8 (as claimed): a group of an activity with a legacy status other than
\* 1, 2, 3, 4 has no defined status, in both scripts.
C8_OtherUndefined ==
  \A g \in groups : ActivityOf(g).Status \notin 1..4 => g.status = "undefined"

\* C8 (amended): the status of a group and of each of its CaseOperations is
\* processed for legacy status 1, on_hold for 2 and 4, confirmed for 3; for
\* any other legacy status the single-activity migrator writes pending, and the
\* mapping of the bulk importer yields no defined status.
MappedStatus(st) ==
  IF st = 1 THEN "processed" ELSE IF st \in {2, 4} THEN "on_hold"
  ELSE IF st = 3 THEN "confirmed"
  ELSE IF pc.prog = "mig" THEN "pending" ELSE "undefined"
C8_StatusMapping ==
  /\ \A g \in groups : g.status = MappedStatus(ActivityOf(g).Status)
  /\ \A o \in ops : \E g \in groups : g.id = o.group_id /\ o.status = g.status
  /\ pc.prog = "bulk" =>
       \A st \in Statuses : parseActivityStatusBulk(st) = MappedStatus(st)

\* the migrator wrote a group and a CaseOperation for legacy status 5
C8_Witness ==
  \E g \in groups : ActivityOf(g).Status = 5 /\ g.status = "pending" /\ GroupOps(g.id) # {}

\* the group of a handled line
GroupOf(h) == CHOOSE g \in groups : g.id = h.gid

\* the handler of line h got as far as the lookup of the wine: the line's case
\* has a target row and, in a transfer, the line is a Bottle line whose case
\* detail lies in a case with a target row
ReachedWineLookup(h) ==
  LET l == activityDetails[h.line] IN
  /\ HasCase(l.CaseID)
  /\ GroupOf(h) \in TransferGroups =>
       /\ l.ActivityType = "Bottle"
       /\ HasDetail(l) /\ HasCase(DetailOf(l).legacy_case_id)

\* the wines of the reconciler's tenant with the legacy id
TenantWines(legacyWineId) ==
  {w \in wines : w.tenant_id = defaultTenantId /\ w.legacy_id = legacyWineId}

C11_KindAndStatus ==
  \A o \in ops : \E g \in groups :
    /\ g.id = o.group_id
    /\ o.type \in {"deposit", "withdrawal"}
    /\ ActivityOf(g).TransactionType = "D" => o.type = "deposit"
    /\ ActivityOf(g).TransactionType = "W" => o.type = "withdrawal"
    /\ o.status = g.status
    /\ o.status = MappedStatus(ActivityOf(g).Status)

\* a withdrawal activity has been reconciled into a withdrawal operation of
\* the status of its group
C11_Witness ==
  \E g \in groups : \E o \in GroupOps(g.id) :
    /\ Ended(g.id)
    /\ ActivityOf(g).TransactionType = "W"
    /\ o.type = "withdrawal"
    /\ o.status = g.status

\* C12: a migrate call with --clear-existing for an activity that already has a
\* group with a CaseOperation leaves the store with the group of exactly one
\* migration of that activity.
C12_ClearLeavesOne ==
  [][(/\ MigrateStep
      /\ pc'.at # "migrate"
      /\ arg'.clearExisting = TRUE
      /\ \E g \in groups : g.act = arg'.activityId /\ GroupOps(g.id) # {})
     => Cardinality({g \in groups' : g.act = arg'.activityId}) = 1]_vars

\* a line that names a bottle format or a vintage with no row in the target store
FormatOrVintageUnresolved(l) ==
  \/ l.BottleSizeID # Nil /\ ~\E f \in formats : f.legacy_id = l.BottleSizeID
  \/ l.VintageID # Nil /\ ~\E v \in vintages : v.legacy_id = l.VintageID

\* C13: a line whose bottle format or vintage has no row in the target store is
\* skipped, nothing is posted for it, and no row of the bottle-format or
\* bottle-vintage table was inserted by the run; only wines get placeholders.
C13_SkippedNeverCreated ==
  /\ \A f \in formats : f.id < 100
  /\ \A v \in vintages : v.id < 100
  /\ \A h \in handled :
       FormatOrVintageUnresolved(activityDetails[h.line]) => h.result = "skipped"

\* a line that leaves wine, format or vintage to the case-detail backfill
NeedsBackfill(l) == l.WineItemID = Nil \/ l.BottleSizeID = Nil \/ l.VintageID = Nil
BackfillProps == {"wineId", "bottleFormatId", "bottleVintageId"}

\* the properties of line l that are left to the backfill
BackfilledProps(l) ==
  {prop \in BackfillProps : CASE prop = "wineId" -> l.WineItemID = Nil
                              [] prop = "bottleFormatId" -> l.BottleSizeID = Nil
                              [] OTHER -> l.VintageID = Nil}

\* C14: for a line that needs the backfill and whose case detail does not
\* exist, or belongs to a case with no target row, the backfill of the running
\* script yields no value for any property left to it, and the line is not
\* posted.
C14_NoDetailOrOwner ==
  \A h \in handled :
    LET l == activityDetails[h.line] IN
    (NeedsBackfill(l) /\ (~HasDetail(l) \/ ~HasCase(DetailOf(l).legacy_case_id)))
      => /\ h.result # "posted"
         /\ \A prop \in BackfilledProps(l) :
              getWinePropFromCaseDetail(pc.prog,
                                        getLegacyIdMap(OfTenant(cases, defaultTenantId)),
                                        l.CaseDetailID, prop) = Nil

\* the groups, operations and ledger entries of a bulk run all belong to
\* activities whose legacy status maps to st
OnlyStatusMappedTo(st) ==
  /\ \A g \in groups : parseActivityStatusBulk(ActivityOf(g).Status) = st
  /\ \A o \in ops : \E g \in groups :
       g.id = o.group_id /\ parseActivityStatusBulk(ActivityOf(g).Status) = st
  /\ \A e \in Ledger : \E o \in ops : \E g \in groups :
       /\ o.id = e.operation_id /\ g.id = o.group_id
       /\ parseActivityStatusBulk(ActivityOf(g).Status) = st

\* C16 (as claimed): the bulk walk builds a group, operations and ledger
\* entries only for activities whose legacy status maps to confirmed.
C16_ConfirmedOnly == OnlyStatusMappedTo("confirmed")

\* C16 (amended): the bulk walk builds a group, operations and ledger entries
\* only for activities whose legacy status is 1, the status that maps to
\* processed; an activity of any other legacy status, the one that maps to
\* confirmed included, produces no group, operation or ledger entry.
C16_ProcessedOnly ==
  /\ OnlyStatusMappedTo("processed")
  /\ \A g \in groups : ActivityOf(g).Status = 1 /\ g.status = "processed"

\* a completed bulk run over an activity of legacy status 3 that has a line and
\* a customer and got no group, and an activity of status 1 that got a group
\* and had a line handled
C16_Witness ==
  /\ pc = Idle("bulk")
  /\ outcome = "completed"
  /\ \E i \in 1..Len(activities) :
       /\ activities[i].Status = 3
       /\ \E u \in users : u.legacy_user_id = activities[i].AccountID
       /\ LinesOf(activities[i].ActivityID) # {}
       /\ \A g \in groups : g.act # activities[i].ActivityID
  /\ \E g \in groups : ActivityOf(g).Status = 1 /\ HandledLines(g.id) # {}

\* the customer of the activity, or the case of one of its non-Supply lines,
\* is missing from the target store
MissingDependency(a) ==
  \/ \A u \in users : u.legacy_user_id # a.AccountID
  \/ \E i \in LinesOf(a.ActivityID) : ~HasCase(activityDetails[i].CaseID)

\* C17: a call of the single-activity migrator for an activity whose customer,
\* or the case of one of whose non-Supply lines, is missing from the target
\* store ends aborted, has not called clearExistingActivityData, and leaves the
\* groups, the case operations, the ledger entries and the wines that were in
\* the store as they were: none is created and none is deleted, and no line
\* handler is called.
C17_AbortBeforeWrite ==
  [][(MigrateStep /\ MissingDependency(activities[1]))
     => /\ pc'.at = "migrate" \/ (outcome' = "aborted" /\ pc' = Idle("mig"))
        /\ ~arg'.cleared
        /\ groups' = groups /\ ops' = ops /\ entries' = entries
        /\ wines' = wines
        /\ handled' = handled]_vars

\* a run with --clear-existing of an activity that an earlier run has migrated,
\* whose customer exists, whose first line names a case that was not imported
\* and whose second line names an imported one, has aborted, and the group and
\* the case operation of the earlier run are still there
C17_Witness ==
  /\ runs > 0
  /\ arg.clearExisting
  /\ ~arg.cleared
  /\ outcome = "aborted"
  /\ \E u \in users : u.legacy_user_id = activities[1].AccountID
  /\ Len(activityDetails) = 2
  /\ activityDetails[1].ActivityType # "Supply"
  /\ ~HasCase(activityDetails[1].CaseID)
  /\ HasCase(activityDetails[2].CaseID)
  /\ groups = MigratedGroups /\ ops = MigratedOps

\* the ledger totals of group g in store s: for every (case, operation kind,
\* legacy wine, bottle format, vintage, amount) the number of ledger entries
\* that carry it
LedgerTotals(s, g) ==
  LET rows == {[e |-> e, o |-> o] : e \in s.entries, o \in {x \in s.ops : x.group_id = g}}
      mine == {r \in rows : r.e.operation_id = r.o.id}
      Total(r) == [case |-> r.o.case_id, kind |-> r.o.type,
                   wine |-> (CHOOSE w \in s.wines : w.id = r.e.wine_id).legacy_id,
                   format |-> r.e.bottle_format_id, vintage |-> r.e.bottle_vintage_id,
                   amount |-> r.e.amount]
  IN {[total |-> Total(r), count |-> Cardinality({x \in mine : Total(x) = Total(r)})] :
        r \in mine}

\* what a run over the lines in the given order leaves: totals and skipped lines
FinalTotals(order) ==
  LET Of(r) == [totals |-> LedgerTotals(r.s, gid), skipped |-> r.skipped]
  IN Of(createCaseOperationsFromActivity(pc.prog, Pack, caseIdMap, gid, cur, order))

\* the reconciliation of the lines of the activity cur is about to begin
AboutToReconcile == pc.at \in {"dw", "t"} /\ idx = 1 /\ leg.step = 0

\* C18: when the reconciliation of a deposit, withdrawal or transfer activity
\* is about to begin, reconciling its lines in any two orders leaves the same
\* ledger totals and the same set of skipped lines.
C18_OrderIndependent ==
  AboutToReconcile =>
    \A o1, o2 \in Orders(LinesOf(cur.ActivityID)) : FinalTotals(o1) = FinalTotals(o2)

\* the tenants of the rows of the reference tables and of the tables the case
\* import writes
RowTenants ==
  {r.tenant_id : r \in users} \cup {r.tenant_id : r \in cases}
  \cup {r.tenant_id : r \in wines} \cup {r.tenant_id : r \in formats}
  \cup {r.tenant_id : r \in vintages} \cup {r.tenant_id : r \in groups}
  \cup {r.tenant_id : r \in ops} \cup {r.tenant_id : r \in entries}

\* C19: the rows written by the wine import, the user import and the case
\* import all belong to one tenant, and while the case import reconciles,
\* every wine, bottle format and vintage inserted by the wine import is found
\* by the reconciliation's lookup by legacy id.
C19_SingleTenant ==
  /\ Cardinality(tenants) <= 1
  /\ Cardinality(RowTenants) <= 1
  /\ pc.at \in {"next", "dw", "t"} =>
       /\ \A w \in wines : ~w.placeholder => getNewWineId(Pack, w.legacy_id).ret = w.id
       /\ \A f \in formats : getNewBottleFormatId(Pack, f.legacy_id).ret = f.id
       /\ \A v \in vintages : getNewBottleVintageId(Pack, v.legacy_id).ret = v.id

\* C20: no step of a second or later run of the case import without
\* --clear-existing inserts a case, a group, a case operation or a ledger
\* entry, or changes a ledger amount.
C20_RerunAddsNothing ==
  [][runs' >= 2 =>
       /\ cases' = cases
       /\ groups' = groups
       /\ ops' = ops
       /\ entries' = entries]_vars

\* ------------------------------------------------------------------ C21
\* the scripts that run() has started are the first ones of its order
StartedInOrder ==
  /\ Len(orchestrator.started) <= Len(Scripts(orchestrator.options))
  /\ \A i \in DOMAIN orchestrator.started :
       orchestrator.started[i] = Scripts(orchestrator.options)[i]

\* C21: a full migration stops on the first error: the scripts are started in
\* the order add-legacy-columns, extract wine/user/case, clean-database, import
\* wine, import user, import case, one after the other has ended, and once a
\* step has met an error no later step is started.
C21_StopsOnFirstError ==
  /\ StartedInOrder
  /\ \A i \in DOMAIN orchestrator.started :
       (\E e \in errors : e.script = orchestrator.started[i])
       => i = Len(orchestrator.started)
  /\ orchestrator.status = "failed" => orchestrator.child.state = "none"

\* ------------------------------------------------------------------ C22
\* every row of before is still a row of now
Kept(before, now) == \A r \in before : \E n \in now : n.id = r.id

\* C22: in a full migration run with --no-delete-data, every row that was in
\* the target store before the run is still there.
C22_NoDeleteKeepsRows ==
  (orchestrator.status # "none" /\ ~orchestrator.options.deleteData)
  => /\ Kept(ExistingUsers, users)
     /\ Kept(ExistingCases, cases)
     /\ Kept(ExistingWines, wines)
     /\ Kept(ExistingFormats, formats)
     /\ Kept(ExistingVintages, vintages)
     /\ Kept(ExistingGroups, groups)
     /\ Kept(ExistingOps, ops)
     /\ Kept(ExistingEntries, entries)

\* ------------------------------------------------------------------ C23
\* the user that seedCases resolves for the legacy account of a case
ResolvedUsers(c) ==
  {u \in users : \E caseData \in {legacyCases[i] : i \in DOMAIN legacyCases} :
                    /\ caseData.legacy_case_id = c.legacy_id
                    /\ u.legacy_user_id = caseData.legacy_account_id}

\* C23: the case import inserts a case only for a user whose status is not
\* 'blocked'; the cases of blocked users are skipped.
C23_ActiveUsersOnly ==
  \A c \in cases : \A u \in ResolvedUsers(c) : u.status # "blocked"

\* ------------------------------------------------------------------ C24
\* C24: in every state of a reconciliation run, every case operation belongs
\* to an operation group that was inserted before it, every ledger entry of an
\* operation belongs to a case operation that was inserted before it, and no
\* ledger entry was posted without an operation id (the entries without one
\* are the snapshots, which carry a case): a deposit or withdrawal line for
\* which no case operation is found, its case having no target row, leaves
\* the handler as skipped. Ids are minted in increasing order, so an earlier
\* insert has the smaller id.
C24_ReferentialOrder ==
  /\ \A o \in ops : \E g \in groups : g.id = o.group_id /\ g.id < o.id
  /\ \A e \in Ledger : \E o \in ops : o.id = e.operation_id /\ o.id < e.id
  /\ \A e \in entries : e.operation_id = Nil => e.case_id # Nil
  /\ \A h \in handled : \E g \in groups : g.id = h.gid
  /\ \A h \in handled :
       (GroupOf(h) \in SimpleGroups /\ ~HasCase(activityDetails[h.line].CaseID))
       => h.result = "skipped"

\* a deposit or withdrawal line with no target case was skipped, and a line
\* of the same run has its case operation in the group of its activity
C24_Witness ==
  /\ \E h \in handled :
       /\ GroupOf(h) \in SimpleGroups
       /\ h.result = "skipped" /\ ~HasCase(activityDetails[h.line].CaseID)
  /\ \E o \in ops : \E g \in groups : g.id = o.group_id /\ g.id < o.id

\* ------------------------------------------------------------------ C25
\* the lines of the activity of group g that come after line l
LinesAfter(g, l) == {i \in LinesOf(g.act) : i > l}

C27_NoEmptyOperations ==
  /\ \A g \in groups : Ended(g.id) =>
       \A o \in GroupOps(g.id) : \E e \in Ledger : e.operation_id = o.id
  /\ \A h \in handled : h.result \in {"skipped", "caught"} =>
       \A o \in GroupOps(h.gid) : o.line # h.line

\* ------------------------------------------------------------------ C28
\* the rows of old that a step has deleted
Deleted(old, new) == {r \in old : \A n \in new : n.id # r.id}

\* the rows a step has deleted all belong to the tenant
OnlyOfTenant(old, new, tenantId) == \A r \in Deleted(old, new) : r.tenant_id = tenantId

\* C28: every step of clean-database and of the imports deletes only rows of
\* the default tenant of the script that takes it; the rows of another tenant
\* and of no tenant stay.
C28_ClearingIsolated ==
  [][/\ OnlyOfTenant(users, users', defaultTenantId')
     /\ OnlyOfTenant(cases, cases', defaultTenantId')
     /\ OnlyOfTenant(wines, wines', defaultTenantId')
     /\ OnlyOfTenant(formats, formats', defaultTenantId')
     /\ OnlyOfTenant(vintages, vintages', defaultTenantId')
     /\ OnlyOfTenant(groups, groups', defaultTenantId')
     /\ OnlyOfTenant(ops, ops', defaultTenantId')
     /\ OnlyOfTenant(entries, entries', defaultTenantId')]_vars

\* the store a reconciler starts from in the current state: the running
\* script keeps its maps, the other one has them as its own seed() or
\* loadMappings() leaves them
StoreOf(p) ==
  IF pc.prog = p THEN Pack
  ELSE IF p = "bulk"
  THEN [Pack EXCEPT !.wmap = EmptyMap, !.fmap = EmptyMap, !.vmap = EmptyMap]
  ELSE [Pack EXCEPT !.wmap = getLegacyIdMap(OfTenant(wines, defaultTenantId)),
                    !.fmap = getLegacyIdMap(OfTenant(formats, defaultTenantId)),
                    !.vmap = getLegacyIdMap(OfTenant(vintages, defaultTenantId))]

\* the case operations of group g in store s without ids and logs, counted
OperationsOf(s, g) ==
  LET mine == {o \in s.ops : o.group_id = g}
      Of(o) == [case |-> o.case_id, kind |-> o.type, status |-> o.status]
  IN {[operation |-> Of(o), count |-> Cardinality({x \in mine : Of(x) = Of(o)})] :
        o \in mine}

\* the placeholder wines of store s by legacy id, counted
PlaceholdersOf(s) ==
  LET mine == {w \in s.wines : w.placeholder}
  IN {[wine |-> w.legacy_id,
       count |-> Cardinality({x \in mine : x.legacy_id = w.legacy_id})] : w \in mine}

\* what reconciler p leaves of the activity cur, up to ids and logs
Reconciled(p) ==
  LET Of(r) == [status |-> parseActivityStatus(p, cur.Status),
                operations |-> OperationsOf(r.s, gid),
                totals |-> LedgerTotals(r.s, gid),
                placeholders |-> PlaceholdersOf(r.s),
                outcome |-> IF r.aborted THEN "aborted" ELSE "completed"]
  IN Of(createCaseOperationsFromActivity(
          p, StoreOf(p), caseIdMap, gid, cur,
          getInventoryActivityDetails(activityDetails, cur.ActivityID)))

\* C30: when the reconciliation of an activity is about to begin, the bulk
\* importer and the single-activity migrator leave, from this store and these
\* line items, the same group status, the same (case, kind, status) case
\* operations, the same ledger totals, the same placeholder wines and the
\* same outcome.
C30_ReconcilersAgree ==
  AboutToReconcile => Reconciled("bulk") = Reconciled("mig")

====
